---- MODULE Spec2Model ----
(***************************************************************************)
(* A model of textpy's edit/replace transaction (interaction.py):          *)
(* FileEditor stages a replacement for one python file, Replacer holds an  *)
(* ordered list of FileEditors and writes them to disk on confirm() and    *)
(* back on rollback().                                                     *)
(*                                                                         *)
(* Texts are sequences of one-character strings.  The filesystem is a      *)
(* function from paths to texts (or Absent).                               *)
(***************************************************************************)
EXTENDS Integers, Sequences, FiniteSets, TLC

\* ------------------------------------------------------------------ bounds
\* longest file text drawn at construction or written by another program
MaxLen == 3
\* most editors one Replacer holds
MaxEditors == 2
\* most modifications of the disk by other programs in one behaviour
MaxExternal == 1
\* how many times "_copy" can be appended to a file's stem
MaxCopies == 1

\* ------------------------------------------------------------------ texts
NL == "\n"
Chars == {"a", NL}
AllFiles == {"f1", "f2"}
\* the content of a path that does not exist (no text: texts hold single characters)
Absent == <<"absent">>
NoInfo == [successful |-> <<>>, failed |-> <<>>]

RECURSIVE TextsOfLen(_)
TextsOfLen(n) ==
    IF n = 0 THEN {<<>>}
    ELSE {Append(t, c) : t \in TextsOfLen(n - 1), c \in Chars}

\* the texts a file holds at construction, or after another program wrote it
Texts == UNION {TextsOfLen(n) : n \in 0..MaxLen}

\* the texts of one-character files
ShortTexts == TextsOfLen(1)

\* <<f, k>> is the path of file f with "_copy" appended k times to its stem
PathsOf(F) == F \X (0..MaxCopies)

\* the patterns (plain one-character strings) and replacements of a replace()
Patterns == {"a", "b"}
Repls == {<<>>, <<"b">>}

\* the whitespace characters of str.strip() and of the regex class \s
Whitespace == {" ", "\t", NL, "\r", "\f"}

\* str.isspace of one character
IsSpace(c) == c \in Whitespace
\* the characters \w matches: letters, digits and the underscore
Word ==
    {"a", "b", "c", "d", "e", "f", "g", "h", "i", "j", "k", "l", "m", "n",
     "o", "p", "q", "r", "s", "t", "u", "v", "w", "x", "y", "z", "A", "B",
     "C", "D", "E", "F", "G", "H", "I", "J", "K", "L", "M", "N", "O", "P",
     "Q", "R", "S", "T", "U", "V", "W", "X", "Y", "Z", "0", "1", "2", "3",
     "4", "5", "6", "7", "8", "9", "_"}

RECURSIVE lstrip(_)
lstrip(s) ==
    IF s # <<>> /\ IsSpace(Head(s)) THEN lstrip(Tail(s)) ELSE s

RECURSIVE rstrip(_)
rstrip(s) ==
    IF s # <<>> /\ IsSpace(s[Len(s)]) THEN rstrip(SubSeq(s, 1, Len(s) - 1)) ELSE s

\* str.strip(): the text without its leading and trailing whitespace
strip(s) == rstrip(lstrip(s))

\* the texts a file of the tree holds at construction: a text, or a text as
\* FileEditor.write saves it, stripped and with one final newline
FileTexts == Texts \cup {strip(t) \o <<NL>> : t \in Texts}

\* counted_strip(string)[0], the text a PyFile keeps
counted_strip(s) == strip(s)

\* re.sub(pattern, repl, string) for a one-character literal pattern, with the
\* number of times the replacement function was called
RECURSIVE re_sub(_, _, _)
re_sub(pattern, repl, string) ==
    IF string = <<>> THEN [text |-> <<>>, n |-> 0]
    ELSE LET rest == re_sub(pattern, repl, Tail(string))
         IN  IF Head(string) = pattern
             THEN [text |-> repl \o rest.text, n |-> rest.n + 1]
             ELSE [text |-> <<Head(string)>> \o rest.text, n |-> rest.n]

\* smart_sub delegates a plain string pattern to re.sub
smart_sub(pattern, repl, string) == re_sub(pattern, repl, string)

\* ------------------------------------------------------------------- re
\* Python's re for the patterns used here: literals, escapes, ".", "^", "$",
\* groups, non-capturing groups, backreferences, \s, \w, character sets
\* without ranges and the quantifiers * + ? (greedy, or lazy with a following "?").
\* A compiled pattern is a sequence of nodes
\*   [kind, ch, n, body, q, mode]
\* kind "lit" (the character ch), "any", "bol", "eol", "group" (number n, the
\* nodes body; n = 0 for "(?:"), "ref" (group n), "in" (the set body of
\* characters, negated when n = 1); q the quantifier, "1" when there is none;
\* mode "greedy", "lazy" (q followed by "?") or "possessive" (by "+").
BSL == "\\"
NUL == "nul"
Digits == <<"1", "2", "3", "4", "5", "6", "7", "8", "9">>
IsDigit(c) == \E k \in DOMAIN Digits : Digits[k] = c
DigitOf(c) == CHOOSE k \in DOMAIN Digits : Digits[k] = c
IsRepeat(c) == c \in {"*", "+", "?"}

re_node(kind, ch, n, body) ==
    [kind |-> kind, ch |-> ch, n |-> n, body |-> body, q |-> "1",
     mode |-> "greedy"]
re_error == [ok |-> FALSE, items |-> <<>>, i |-> 0, ng |-> 0]

\* sre_parse: the quantifier that starts at p[i], and where it ends
re_parse_repeat(p, i) ==
    IF i <= Len(p) /\ IsRepeat(p[i])
    THEN IF i < Len(p) /\ p[i + 1] \in {"?", "+"}
         THEN [ok |-> ~(i + 1 < Len(p) /\ IsRepeat(p[i + 2])),
               q |-> p[i],
               mode |-> IF p[i + 1] = "?" THEN "lazy" ELSE "possessive",
               i |-> i + 2]
         ELSE [ok |-> ~(i < Len(p) /\ IsRepeat(p[i + 1])),
               q |-> p[i], mode |-> "greedy", i |-> i + 1]
    ELSE [ok |-> TRUE, q |-> "1", mode |-> "greedy", i |-> i]

\* sre_parse: the characters the escape of e stands for in a set
re_category(e) ==
    CASE e = "s" -> Whitespace
      [] e = "w" -> Word
      [] OTHER -> {e}

\* sre_parse: the members of a character set from p[i] up to its "]"; first
\* is TRUE at the first member, where "]" is a literal
RECURSIVE re_parse_set(_, _, _, _)
re_parse_set(p, i, first, acc) ==
    IF i > Len(p) THEN [ok |-> FALSE, set |-> {}, i |-> i]
    ELSE IF p[i] = "]" /\ ~first THEN [ok |-> TRUE, set |-> acc, i |-> i + 1]
    ELSE IF p[i] = BSL
    THEN IF i = Len(p) THEN [ok |-> FALSE, set |-> {}, i |-> i]
         ELSE re_parse_set(p, i + 2, FALSE,
                           acc \cup re_category(p[i + 1]))
    ELSE re_parse_set(p, i + 1, FALSE, acc \cup {p[i]})

\* sre_parse: one node was parsed, the next character is p[i]
re_parsed(node, i, ng) ==
    [ok |-> TRUE, items |-> <<node>>, i |-> i, ng |-> ng]

\* sre_parse: the group number n (0 for "(?:") whose body was parsed as b
re_parse_group(p, b, n) ==
    IF ~b.ok \/ b.i > Len(p) THEN re_error
    ELSE re_parsed(re_node("group", "", n, b.items), b.i + 1, b.ng)

\* sre_parse: the character set whose members were parsed as b
re_parse_in(b, neg, ng) ==
    IF ~b.ok THEN re_error
    ELSE re_parsed(re_node("in", "", IF neg THEN 1 ELSE 0, b.set), b.i, ng)

\* sre_parse: the escape of the character e at p[i + 1]
re_parse_escape(e, i, ng, open) ==
    IF IsDigit(e)
    THEN IF DigitOf(e) > ng \/ DigitOf(e) \in open THEN re_error
         ELSE re_parsed(re_node("ref", "", DigitOf(e), <<>>), i + 2, ng)
    ELSE IF e \in {"s", "w"}
    THEN re_parsed(re_node("in", "", 0, re_category(e)), i + 2, ng)
    ELSE re_parsed(re_node("lit", IF e = "0" THEN NUL ELSE e, 0, <<>>),
                   i + 2, ng)

\* sre_parse: the nodes of p from p[i] up to the end or an unmatched ")";
\* ng groups were opened before p[i], those of `open` are not closed yet
RECURSIVE re_parse_seq(_, _, _, _)
re_parse_atom(p, i, ng, open) ==
    CASE p[i] = "(" /\ i + 1 < Len(p) /\ p[i + 1] = "?" /\ p[i + 2] = ":" ->
           re_parse_group(p, re_parse_seq(p, i + 3, ng, open), 0)
      [] p[i] = "(" ->
           re_parse_group(p, re_parse_seq(p, i + 1, ng + 1, open \cup {ng + 1}),
                          ng + 1)
      [] p[i] = BSL ->
           IF i = Len(p) THEN re_error
           ELSE re_parse_escape(p[i + 1], i, ng, open)
      [] p[i] = "[" /\ i < Len(p) /\ p[i + 1] = "^" ->
           re_parse_in(re_parse_set(p, i + 2, TRUE, {}), TRUE, ng)
      [] p[i] = "[" ->
           re_parse_in(re_parse_set(p, i + 1, TRUE, {}), FALSE, ng)
      [] IsRepeat(p[i]) -> re_error
      [] p[i] = "." -> re_parsed(re_node("any", "", 0, <<>>), i + 1, ng)
      [] p[i] = "^" -> re_parsed(re_node("bol", "", 0, <<>>), i + 1, ng)
      [] p[i] = "$" -> re_parsed(re_node("eol", "", 0, <<>>), i + 1, ng)
      [] OTHER -> re_parsed(re_node("lit", p[i], 0, <<>>), i + 1, ng)

\* sre_parse: the atom a with its quantifier r in front of the nodes rest
re_parse_cons(a, r, rest) ==
    IF ~rest.ok THEN re_error
    ELSE [rest EXCEPT !.items = <<[a.items[1] EXCEPT !.q = r.q,
                                                     !.mode = r.mode]>> \o @]

\* sre_parse: the atom a, its quantifier r and the nodes after them
re_parse_quantified(p, a, r, open) ==
    IF ~r.ok \/ (a.items[1].kind \in {"bol", "eol"} /\ r.q # "1")
    THEN re_error
    ELSE re_parse_cons(a, r, re_parse_seq(p, r.i, a.ng, open))

\* sre_parse: the atom a and what follows it
re_parse_after(p, a, open) ==
    IF ~a.ok THEN re_error
    ELSE re_parse_quantified(p, a, re_parse_repeat(p, a.i), open)

re_parse_seq(p, i, ng, open) ==
    IF i > Len(p) \/ p[i] = ")"
    THEN [ok |-> TRUE, items |-> <<>>, i |-> i, ng |-> ng]
    ELSE re_parse_after(p, re_parse_atom(p, i, ng, open), open)

\* re.compile(p) when p was parsed as r
re_compiled(p, r) ==
    IF r.ok /\ r.i > Len(p)
    THEN [ok |-> TRUE, items |-> r.items, ng |-> r.ng]
    ELSE [ok |-> FALSE, items |-> <<>>, ng |-> 0]

\* re.compile(p): ok is FALSE when re.error is raised
re_compile(p) == re_compiled(p, re_parse_seq(p, 1, 0, {}))

\* The matcher: a state is [pos, g, dotall], pos characters of s consumed,
\* g[n] the span <<start, end>> of group n (<<>> when it has not matched) and
\* dotall the flag re.DOTALL.  Each
\* operator gives the states the backtracking search would try, in its order.
RECURSIVE re_m_items(_, _, _, _), re_m_then(_, _, _, _, _, _),
          re_m_star(_, _, _, _), re_m_stars(_, _, _, _, _, _)

re_m_close(rs, n, from) ==
    [k \in DOMAIN rs |-> [rs[k] EXCEPT !.g[n] = <<from, rs[k].pos>>]]

\* the states after a backreference to the span c
re_m_ref(c, s, st) ==
    IF c = <<>> THEN <<>>
    ELSE IF /\ st.pos + c[2] - c[1] <= Len(s)
            /\ SubSeq(s, st.pos + 1, st.pos + c[2] - c[1])
                 = SubSeq(s, c[1] + 1, c[2])
    THEN <<[st EXCEPT !.pos = @ + c[2] - c[1]]>>
    ELSE <<>>

\* the states after a node that is no group
re_m_char(node, s, st) ==
    CASE node.kind = "lit" ->
           IF st.pos < Len(s) /\ s[st.pos + 1] = node.ch
           THEN <<[st EXCEPT !.pos = @ + 1]>> ELSE <<>>
      [] node.kind = "any" ->
           IF st.pos < Len(s) /\ (st.dotall \/ s[st.pos + 1] # NL)
           THEN <<[st EXCEPT !.pos = @ + 1]>> ELSE <<>>
      [] node.kind = "in" ->
           IF st.pos < Len(s) /\ ((s[st.pos + 1] \in node.body) = (node.n = 0))
           THEN <<[st EXCEPT !.pos = @ + 1]>> ELSE <<>>
      [] node.kind = "bol" -> IF st.pos = 0 THEN <<st>> ELSE <<>>
      [] node.kind = "eol" ->
           IF \/ st.pos = Len(s)
              \/ st.pos = Len(s) - 1 /\ s[Len(s)] = NL
           THEN <<st>> ELSE <<>>
      [] node.kind = "ref" -> re_m_ref(st.g[node.n], s, st)

\* the states rs after the body of the group node, which started at `from`
re_m_group(node, rs, from) ==
    IF node.n = 0 THEN rs ELSE re_m_close(rs, node.n, from)

re_m_atom(node, s, st) ==
    IF node.kind = "group"
    THEN re_m_group(node, re_m_items(node.body, 1, s, st), st.pos)
    ELSE re_m_char(node, s, st)

\* a run of m characters from st, the longest repetition first when greedy
re_m_run(st, m, greedy) ==
    [k \in 1..(m + 1) |->
       [st EXCEPT !.pos = IF greedy THEN st.pos + m + 1 - k
                          ELSE st.pos + k - 1]]

\* the length of the run from pos that ends before the first of stops
re_m_run_length(stops, len, pos) ==
    IF stops = {} THEN len - pos
    ELSE (CHOOSE j \in stops : \A k \in stops : j <= k) - 1 - pos

\* the states after zero repetitions (st) and after more (again)
re_m_more(st, again, greedy) ==
    IF greedy THEN again \o <<st>> ELSE <<st>> \o again

\* zero or more repetitions from st; a repetition that consumes nothing ends
\* the loop.  A node that matches one character is repeated over the run of
\* the characters it matches.
re_m_star(node, s, st, greedy) ==
    IF node.kind \in {"lit", "any", "in"}
    THEN re_m_run(st,
                  re_m_run_length(
                      {j \in (st.pos + 1)..Len(s) :
                         re_m_char(node, s, [st EXCEPT !.pos = j - 1]) = <<>>},
                      Len(s), st.pos),
                  greedy)
    ELSE re_m_more(st,
                   re_m_stars(SelectSeq(re_m_atom(node, s, st),
                                        LAMBDA r : r.pos > st.pos),
                              1, -1, node, s, greedy),
                   greedy)

\* the repetitions from each of rs[lo..hi], in their order; hi = -1 stands
\* for Len(rs)
re_m_stars(rs, lo, hi, node, s, greedy) ==
    IF hi = -1 THEN re_m_stars(rs, lo, Len(rs), node, s, greedy)
    ELSE IF lo > hi THEN <<>>
    ELSE IF lo = hi THEN re_m_star(node, s, rs[lo], greedy)
    ELSE re_m_stars(rs, lo, (lo + hi) \div 2, node, s, greedy)
           \o re_m_stars(rs, (lo + hi) \div 2 + 1, hi, node, s, greedy)

\* the states after node, whose states after one match are once, repeated as
\* its quantifier says
re_m_repeat(node, s, st, once) ==
    CASE node.q = "1" -> once
      [] node.q = "?" ->
           IF node.mode # "lazy" THEN once \o <<st>> ELSE <<st>> \o once
      [] node.q = "*" -> re_m_star(node, s, st, node.mode # "lazy")
      [] node.q = "+" -> re_m_stars(once, 1, -1, node, s, node.mode # "lazy")

\* a possessive quantifier keeps the first of the states all
re_m_possessive(node, all) ==
    IF node.mode = "possessive" /\ all # <<>> THEN <<all[1]>> ELSE all

\* the states after node, repeated as its quantifier says
re_m_node(node, s, st) ==
    re_m_possessive(node, re_m_repeat(node, s, st, re_m_atom(node, s, st)))

\* the states after the nodes items[j..] matched from st
re_m_items(items, j, s, st) ==
    IF j > Len(items) THEN <<st>>
    ELSE re_m_then(re_m_node(items[j], s, st), 1, -1, items, j + 1, s)

\* the states after items[j..] matched from each of rs[lo..hi], in their
\* order; hi = -1 stands for Len(rs)
re_m_then(rs, lo, hi, items, j, s) ==
    IF hi = -1 THEN re_m_then(rs, lo, Len(rs), items, j, s)
    ELSE IF lo > hi THEN <<>>
    ELSE IF lo = hi THEN re_m_items(items, j, s, rs[lo])
    ELSE re_m_then(rs, lo, (lo + hi) \div 2, items, j, s)
           \o re_m_then(rs, (lo + hi) \div 2 + 1, hi, items, j, s)

\* a match object (re.Match or SmartMatch), and None
Match(start, end, group) ==
    [matched |-> TRUE, start |-> start, end |-> end, group |-> group]
None == [matched |-> FALSE, start |-> 0, end |-> 0, group |-> <<>>]
\* what a call that raises (re.error, ValueError) leaves
Raised == [matched |-> FALSE, start |-> -1, end |-> -1, group |-> <<>>]

\* the match from offset i of s that the states rs end
re_matched(s, i, rs) ==
    IF rs = <<>> THEN None ELSE Match(i, rs[1].pos, SubSeq(s, i + 1, rs[1].pos))

\* the match of the compiled pattern c that starts at offset i of s
re_match_at(c, s, i, dotall) ==
    re_matched(s, i,
               re_m_items(c.items, 1, s,
                          [pos |-> i, g |-> [n \in 1..c.ng |-> <<>>],
                           dotall |-> dotall]))

\* re.match with the pattern compiled as c
re_match_compiled(c, s, dotall) ==
    IF ~c.ok THEN Raised ELSE re_match_at(c, s, 0, dotall)

\* re.match(pattern, string, flags): dotall is flags & re.DOTALL
re_match(p, s, dotall) == re_match_compiled(re_compile(p), s, dotall)

\* re.search(pattern, string, flags): the match at the leftmost of the
\* offsets lo..hi
RECURSIVE re_search_in(_, _, _, _, _)
re_search_else(m, c, s, lo, hi, dotall) ==
    IF m.matched THEN m ELSE re_search_in(c, s, lo, hi, dotall)

re_search_in(c, s, lo, hi, dotall) ==
    IF lo > hi THEN None
    ELSE IF lo = hi THEN re_match_at(c, s, lo, dotall)
    ELSE re_search_else(re_search_in(c, s, lo, (lo + hi) \div 2, dotall),
                        c, s, (lo + hi) \div 2 + 1, hi, dotall)

re_search_from(c, s, i, dotall) == re_search_in(c, s, i, Len(s), dotall)

\* re.search with the pattern compiled as c
re_search_compiled(c, s, dotall) ==
    IF ~c.ok THEN Raised ELSE re_search_from(c, s, 0, dotall)

re_search(p, s, dotall) == re_search_compiled(re_compile(p), s, dotall)

\* ---------------------------------------------------------- str methods
\* string[i:] and string[:i] for 0 <= i
StrFrom(s, i) == SubSeq(s, i + 1, Len(s))
StrTo(s, i) == SubSeq(s, 1, IF i < Len(s) THEN i ELSE Len(s))

\* str.find(sub) from offset i: the first offset of sub in s, -1 when none
RECURSIVE str_find(_, _, _)
str_find(s, sub, i) ==
    IF i + Len(sub) > Len(s) THEN -1
    ELSE IF SubSeq(s, i + 1, i + Len(sub)) = sub THEN i
    ELSE str_find(s, sub, i + 1)

\* str.split(sep) for a non-empty sep
RECURSIVE str_split(_, _)
str_split(s, sep) ==
    LET i == str_find(s, sep, 0)
    IN  IF i < 0 THEN <<s>>
        ELSE <<StrTo(s, i)>> \o str_split(StrFrom(s, i + Len(sep)), sep)

\* str.partition(sep)[0]
str_partition0(s, sep) == str_split(s, sep)[1]

\* ignore[::2]: the characters at the even offsets
str_evens(s) == {s[k] : k \in {j \in DOMAIN s : j % 2 = 1}}

\* ------------------------------------------------------ smart operations
\* find_right_bracket raises ValueError
ValueError == -2

\* find_right_bracket, the loop from pos_now on
RECURSIVE find_right_bracket_loop(_, _, _, _, _, _)

\* a loop that never stops at a newline
find_right_bracket_loop_crossing(string, pos_now, left, right, cnt, crossline) ==
    IF pos_now >= Len(string) THEN -1
    ELSE LET now == string[pos_now + 1]
             c == IF now = left THEN cnt + 1
                  ELSE IF now = right THEN cnt - 1 ELSE cnt
         IN  IF c = 0 THEN pos_now + 1
             ELSE find_right_bracket_loop(string, pos_now + 1, left, right, c,
                                          crossline)

find_right_bracket_loop(string, pos_now, left, right, cnt, crossline) ==
    IF pos_now >= Len(string) THEN -1
    ELSE LET now == string[pos_now + 1]
             c == IF now = left THEN cnt + 1
                  ELSE IF now = right THEN cnt - 1 ELSE cnt
         IN  IF now # left /\ now # right /\ now = NL /\ ~crossline THEN -1
             ELSE IF c = 0 THEN pos_now + 1
             ELSE find_right_bracket_loop(string, pos_now + 1, left, right, c,
                                          crossline)

\* find_right_bracket, the bracket that closes left
right_bracket(left) ==
    CASE left = "(" -> ")"
      [] left = "[" -> "]"
      [] left = "{" -> "}"

\* find_right_bracket(string, start, crossline)
find_right_bracket(string, start, crossline) ==
    IF string[start + 1] \in {"(", "[", "{"}
    THEN find_right_bracket_loop(string, start + 1, string[start + 1],
                                 right_bracket(string[start + 1]), 1,
                                 crossline)
    ELSE ValueError

\* SmartPattern(pattern, flags, ignore, mark_ignore); dotall is
\* flags & re.DOTALL
SmartPattern(pattern, dotall, ignore, mark_ignore) ==
    [smart |-> TRUE, pattern |-> pattern, dotall |-> dotall,
     ignore |-> ignore, mark_ignore |-> mark_ignore]
\* a pattern that is a plain str
StrPattern(pattern) ==
    [smart |-> FALSE, pattern |-> pattern, dotall |-> FALSE,
     ignore |-> <<>>, mark_ignore |-> <<>>]

\* smart_match, the final match
smart_match_last(matched, pos_now, recorded_group) ==
    IF matched.matched
    THEN Match(0, pos_now + matched.end, recorded_group \o matched.group)
    ELSE IF matched = Raised THEN Raised ELSE None

\* smart_match, the loop over splited[:-1] from the k-th piece on, and the
\* final match
RECURSIVE smart_match_loop(_, _, _, _, _, _, _)

\* a skip that does not record the span it skips
smart_match_skip_nosplice(pattern, splited, k, string, pos_now, recorded_group, n) ==
    IF n = ValueError THEN Raised
    ELSE IF n < 0 THEN None
    ELSE smart_match_loop(pattern, splited, k + 1, StrFrom(string, n),
                          pos_now + n, <<>>, recorded_group)

\* smart_match, the loop body after find_right_bracket gave n: the span up
\* to the right bracket is skipped and recorded
smart_match_skip(pattern, splited, k, string, pos_now, recorded_group, n) ==
    IF n = ValueError THEN Raised
    ELSE IF n < 0 THEN None
    ELSE smart_match_loop(pattern, splited, k + 1, StrFrom(string, n),
                          pos_now + n, <<>>, recorded_group \o StrTo(string, n))

\* smart_match, the loop body after re.match(temp, string) gave matched
smart_match_piece(pattern, splited, k, string, pos_now, temp, recorded_group, matched) ==
    IF ~matched.matched
    THEN IF matched = Raised THEN Raised ELSE None
    ELSE IF /\ matched.end < Len(string)
            /\ string[matched.end + 1] \in str_evens(pattern.ignore)
    THEN smart_match_skip(pattern, splited, k, string, pos_now, recorded_group,
                          find_right_bracket(string, matched.end,
                                             pattern.dotall))
    ELSE smart_match_loop(pattern, splited, k + 1, string, pos_now, temp,
                          recorded_group)

smart_match_loop(pattern, splited, k, string, pos_now, temp, recorded_group) ==
    IF k >= Len(splited)
    THEN smart_match_last(re_match(temp \o splited[Len(splited)], string,
                                   pattern.dotall),
                          pos_now, recorded_group)
    ELSE smart_match_piece(pattern, splited, k, string, pos_now,
                           temp \o splited[k], recorded_group,
                           re_match(temp \o splited[k], string, pattern.dotall))

\* smart_match(pattern, string)
smart_match(pattern, string) ==
    IF ~pattern.smart \/ str_find(pattern.pattern, pattern.mark_ignore, 0) < 0
    THEN re_match(pattern.pattern, string, pattern.dotall)
    ELSE smart_match_loop(pattern,
                          str_split(pattern.pattern, pattern.mark_ignore),
                          1, string, 0, <<>>, <<>>)

\* smart_search, the while loop
RECURSIVE smart_search_loop(_, _, _, _)

\* smart_search, the loop body after smart_match(pattern, string) gave matched
smart_search_matched(pattern, to_search, string, pos_now, matched) ==
    IF matched.matched
    THEN Match(pos_now, pos_now + matched.end, matched.group)
    ELSE IF matched = Raised THEN Raised
    ELSE smart_search_loop(pattern, to_search, StrFrom(string, 1), pos_now + 1)

\* smart_search, the loop body after re.search(to_search, string) gave
\* searched
smart_search_found(pattern, to_search, string, pos_now, searched) ==
    IF ~searched.matched THEN searched
    ELSE smart_search_matched(pattern, to_search,
                              StrFrom(string, searched.start),
                              pos_now + searched.start,
                              smart_match(pattern,
                                          StrFrom(string, searched.start)))

smart_search_loop(pattern, to_search, string, pos_now) ==
    IF string = <<>> THEN None
    ELSE smart_search_found(pattern, to_search, string, pos_now,
                            re_search(to_search, string, pattern.dotall))

\* smart_search(pattern, string)
smart_search(pattern, string) ==
    IF ~pattern.smart \/ str_find(pattern.pattern, pattern.mark_ignore, 0) < 0
    THEN re_search(pattern.pattern, string, pattern.dotall)
    ELSE smart_search_loop(pattern,
                           str_partition0(pattern.pattern, pattern.mark_ignore),
                           string, 0)

\* ------------------------------------------------- the loops over matches
\* str.count(c) and str.rfind(c) for one character c (rfind: an offset, -1
\* when c does not occur)
RECURSIVE str_count(_, _)
str_count(s, c) ==
    IF s = <<>> THEN 0
    ELSE str_count(Tail(s), c) + (IF Head(s) = c THEN 1 ELSE 0)

RECURSIVE str_rfind(_, _)
str_rfind(s, c) ==
    IF s = <<>> THEN -1
    ELSE IF s[Len(s)] = c THEN Len(s) - 1
    ELSE str_rfind(SubSeq(s, 1, Len(s) - 1), c)

Max(a, b) == IF a >= b THEN a ELSE b

\* the frame of a call fn(pattern, string, ...) that has not started
LoopFrame(fn, pattern, string, count, linemode, repl) ==
    [fn |-> fn, pc |-> "call", pattern |-> pattern, string |-> string,
     string0 |-> string, count |-> count, linemode |-> linemode,
     repl |-> repl, iters |-> 0, finds |-> <<>>, new_string |-> <<>>,
     splits |-> <<>>, stored |-> <<>>, searched |-> None, nline |-> 1,
     total_pos |-> 0, line_pos |-> 0, ret |-> <<>>]

\* the function returns ret, or raises what smart_search raised
Return(fr, ret) == [fr EXCEPT !.pc = "done", !.ret = ret]
Raise(fr) == [fr EXCEPT !.pc = "done", !.ret = Raised]
\* the loop body has run once more and the loop goes on
Iterated(fr) == [fr EXCEPT !.pc = "loop", !.iters = @ + 1]
\* the loop body has run once more and ended in a break or a return
Broke(fr, ret) == [fr EXCEPT !.pc = "done", !.iters = @ + 1, !.ret = ret]

\* a slice that removes nothing after an empty match
StrAfter_stuck(string, searched) == StrFrom(string, searched.end)

\* string[1 if searched.end() == 0 else searched.end():]
StrAfter(string, searched) ==
    StrFrom(string, IF searched.end = 0 THEN 1 ELSE searched.end)

\* smart_findall for a SmartPattern: the test of the while loop and its
\* body, after smart_search(pattern, string) gave searched
smart_findall_body(fr, searched) ==
    LET finds == Append(fr.finds, searched.group)
    IN  IF searched = Raised THEN Raise(fr)
        ELSE IF ~searched.matched THEN Return(fr, fr.finds)
        ELSE IF fr.string = <<>> THEN Broke([fr EXCEPT !.finds = finds], finds)
        ELSE Iterated([fr EXCEPT !.finds = finds,
                                 !.string = StrAfter(fr.string, searched)])

\* smart_findall for a SmartPattern: the test of the while loop and its body
smart_findall_step(fr) ==
    smart_findall_body(fr, smart_search(fr.pattern, fr.string))

\* real_findall: the test of the while loop and its body, after
\* smart_search(pattern, string) gave searched
real_findall_body(fr, searched) ==
    LET string == fr.string
        span == <<searched.start, searched.end>>
        group == searched.group
        left == StrTo(string, span[1])
        lc_left == str_count(left, NL)
        nline1 == fr.nline + lc_left
        line_pos1 == IF lc_left > 0 THEN 0 ELSE fr.line_pos
        lastline_pos == Len(left) - 1 - str_rfind(left, NL)
        matched == Match(line_pos1 + lastline_pos,
                         line_pos1 + lastline_pos + span[2] - span[1], group)
        f1 == IF fr.linemode
              THEN [fr EXCEPT
                      !.finds = Append(@, <<nline1, matched>>),
                      !.nline = nline1 + str_count(group, NL),
                      !.line_pos =
                         IF str_count(group, NL) > 0
                         THEN Len(group) - 1 - str_rfind(group, NL)
                         ELSE line_pos1
                                + Max(lastline_pos + span[2] - span[1], 1)]
              ELSE [fr EXCEPT
                      !.finds = Append(@, Match(span[1] + fr.total_pos,
                                                span[2] + fr.total_pos, group)),
                      !.total_pos = @ + Max(span[2], 1)]
    IN  IF searched = Raised THEN Raise(fr)
        ELSE IF ~searched.matched THEN Return(fr, fr.finds)
        ELSE IF Len(string) = 0 THEN Broke(f1, f1.finds)
        ELSE IF span[2] = 0
        THEN Iterated([f1 EXCEPT
                         !.nline = @ + (IF string[1] = NL THEN 1 ELSE 0),
                         !.string = StrFrom(string, 1)])
        ELSE Iterated([f1 EXCEPT !.string = StrFrom(string, span[2])])

\* real_findall: the test of the while loop and its body
real_findall_step(fr) ==
    real_findall_body(fr, smart_search(fr.pattern, fr.string))

\* smart_sub for a SmartPattern: the code before the loop
smart_sub_enter(fr) ==
    IF fr.count < 0 THEN Return(fr, fr.string) ELSE [fr EXCEPT !.pc = "loop"]

\* smart_sub for a SmartPattern: the test of the while loop and its body,
\* after smart_search(pattern, string) gave searched
smart_sub_body(fr, searched) ==
    LET string == fr.string
        new_string == fr.new_string \o StrTo(string, searched.start) \o fr.repl
        count == IF string = <<>> THEN fr.count ELSE fr.count - 1
        f1 == [fr EXCEPT !.new_string = new_string, !.count = count]
    IN  IF searched = Raised THEN Raise(fr)
        ELSE IF ~searched.matched THEN Return(fr, fr.new_string \o string)
        ELSE IF string = <<>> \/ count = 0 THEN Broke(f1, new_string \o string)
        ELSE IF searched.end = 0
        THEN Iterated([f1 EXCEPT !.new_string = Append(@, string[1]),
                                 !.string = StrFrom(string, 1)])
        ELSE Iterated([f1 EXCEPT !.string = StrFrom(string, searched.end)])

\* smart_sub for a SmartPattern: the test of the while loop and its body
smart_sub_step(fr) == smart_sub_body(fr, smart_search(fr.pattern, fr.string))

\* smart_subn for a SmartPattern: the code before the loop; tmpcnt is kept
\* in the frame's count, the argument count in total_pos
smart_subn_enter(fr) ==
    IF fr.count < 0 THEN Return(fr, <<fr.string, 0>>)
    ELSE [fr EXCEPT !.pc = "loop", !.total_pos = fr.count]

\* smart_subn for a SmartPattern: the test of the while loop and its body,
\* after smart_search(pattern, string) gave searched
smart_subn_body(fr, searched) ==
    LET string == fr.string
        new_string == fr.new_string \o StrTo(string, searched.start) \o fr.repl
        tmpcnt == fr.count - 1
        f1 == [fr EXCEPT !.new_string = new_string, !.count = tmpcnt]
    IN  IF searched = Raised THEN Raise(fr)
        ELSE IF ~searched.matched
        THEN Return(fr, <<fr.new_string \o string, fr.total_pos - fr.count>>)
        ELSE IF tmpcnt = 0 \/ string = <<>>
        THEN Broke(f1, <<new_string \o string, fr.total_pos - tmpcnt>>)
        ELSE IF searched.end = 0
        THEN Iterated([f1 EXCEPT !.new_string = Append(@, string[1]),
                                 !.string = StrFrom(string, 1)])
        ELSE Iterated([f1 EXCEPT !.string = StrFrom(string, searched.end)])

\* smart_subn for a SmartPattern: the test of the while loop and its body
smart_subn_step(fr) == smart_subn_body(fr, smart_search(fr.pattern, fr.string))

\* smart_split, rsplit and lsplit: the code before the loop, after
\* smart_search(pattern, string) gave searched
split_entered(fr, searched) ==
    IF searched = Raised THEN Raise(fr)
    ELSE IF ~searched.matched THEN Return(fr, <<fr.string>>)
    ELSE [fr EXCEPT
            !.pc = "loop", !.searched = searched,
            !.splits = IF fr.fn = "rsplit" THEN <<<<>>>> ELSE <<>>,
            !.stored = IF fr.fn = "rsplit" THEN <<>>
                       ELSE StrTo(fr.string, searched.start)]

\* smart_split, rsplit and lsplit: the code before the loop
split_enter(fr) ==
    IF fr.count < 0 THEN Return(fr, <<fr.string>>)
    ELSE split_entered(fr, smart_search(fr.pattern, fr.string))

\* smart_split, rsplit and lsplit: the end of the loop body, after
\* smart_search(pattern, string) gave searched
split_searched(fr, searched) ==
    IF searched = Raised THEN Raise(fr)
    ELSE Iterated([fr EXCEPT !.searched = searched])

\* splits[-1] += s
AddToLast(splits, s) == [splits EXCEPT ![Len(splits)] = @ \o s]

\* smart_split, rsplit and lsplit: the test of the while loop, its body, its
\* else clause and the code after it
split_step(fr) ==
    LET string == fr.string
        searched == fr.searched
        rs == fr.fn = "rsplit"
        put(splits, s) == IF rs THEN AddToLast(splits, s) ELSE Append(splits, s)
        piece == IF fr.fn = "lsplit" THEN StrTo(string, searched.end)
                 ELSE StrTo(string, searched.start)
        f1 == IF searched.end = 0
              THEN [fr EXCEPT !.splits = put(@, fr.stored),
                              !.stored = <<string[1]>>,
                              !.string = StrFrom(string, 1)]
              ELSE [fr EXCEPT !.splits = put(@, fr.stored \o piece),
                              !.stored = <<>>,
                              !.string = StrFrom(string, searched.end)]
        f2 == [f1 EXCEPT !.splits = IF rs THEN Append(@, searched.group) ELSE @,
                         !.count = @ - 1]
    IN  IF searched.matched /\ string # <<>>
        THEN IF f2.count = 0
             THEN Broke(f2, put(f2.splits, f2.stored \o f2.string))
             ELSE split_searched(f2, smart_search(fr.pattern, f2.string))
        ELSE IF searched.matched
        THEN Return(fr, Append(put(fr.splits, fr.stored), <<>>))
        ELSE Return(fr, put(fr.splits, fr.stored \o string))

\* ------------------------------------------------------------------ state
VARIABLES
    files,      \* the python files of the tree (fixed at construction)
    disk,       \* the filesystem: [Paths -> text or Absent]
    pyText,     \* PyFile.text of every file of the tree
    editors,    \* Replacer.editors: a sequence of FileEditor records
    confirmed,  \* Replacer.__confirmed
    nExternal,  \* number of modifications by other programs so far
    last,       \* the last call, when it was confirm(), rollback() or a
                \* modification by another program, with what it found and
                \* returned; NoCall after a replace() (history)
    frame       \* the call of a function of the library that is running or
                \* has returned: its name, arguments, local variables,
                \* position and result; NoFrame when there is none

vars == <<files, disk, pyText, editors, confirmed, nExternal, last, frame>>

\* the variables of the transaction
txVars == <<files, disk, pyText, editors, confirmed, nExternal, last>>

NoFrame == [fn |-> "none", pc |-> "none"]

NoCall ==
    [op |-> "none", force |-> FALSE, raised |-> FALSE, info |-> NoInfo,
     writes |-> <<>>, pre |-> <<>>]

\* the record of a call; pre is the filesystem the call found
Call(op, force, raised, info, writes) ==
    [op |-> op, force |-> force, raised |-> raised, info |-> info,
     writes |-> writes, pre |-> IF raised THEN <<>> ELSE disk]

\* PyFile.__texttree_post_init__: the file's text is the stripped file content
PyFile_init(d, f) == counted_strip(d[<<f, 0>>])

\* the state after the tree of the files F was built from a filesystem in
\* which each file holds a text of T and no copy exists
InitTree(F, T) ==
    /\ files = F
    /\ disk \in {d \in [PathsOf(F) -> T \cup {Absent}] :
                    \A p \in PathsOf(F) : (d[p] = Absent) <=> (p[2] > 0)}
    /\ pyText = [f \in F |-> PyFile_init(disk, f)]
    /\ editors = <<>>
    /\ confirmed = FALSE
    /\ nExternal = 0
    /\ last = NoCall
    /\ frame = NoFrame

\* --------------------------------------------------------------- FileEditor
exists(d, p) == d[p] # Absent

\* FileEditor.__init__: the path the editor writes to.  With overwrite=False
\* "_copy" is appended to the stem until the path does not exist.
RECURSIVE FileEditor_path(_, _, _)
FileEditor_path(d, p, overwrite) ==
    IF ~overwrite /\ exists(d, p) /\ p[2] < MaxCopies
    THEN FileEditor_path(d, <<p[1], p[2] + 1>>, overwrite)
    ELSE p

\* FileEditor.read
FileEditor_read(d, e) == strip(d[e.path])

\* a compare that never reads the file
FileEditor_compare_unchecked(d, e, text) == TRUE

\* FileEditor.compare: TRUE iff the file still holds `text`
FileEditor_compare(d, e, text) ==
    IF e.overwrite THEN FileEditor_read(d, e) = text ELSE TRUE

\* a write that goes to the file of the tree, whatever path was chosen
FileEditor_write_original(d, e, text) ==
    IF ~e.is_based_on THEN [d EXCEPT ![<<e.pyfile, 0>>] = text \o <<NL>>] ELSE d

\* FileEditor.write: the filesystem after e.write(text)
FileEditor_write(d, e, text) ==
    IF ~e.is_based_on THEN [d EXCEPT ![e.path] = text \o <<NL>>] ELSE d

\* a replace that reads the file again instead of the staged text
FileEditor_input_disk(eds, f, based_on) == strip(disk[<<f, 0>>])

\* the text FileEditor.replace substitutes in
FileEditor_input(eds, f, based_on) ==
    IF based_on # 0 THEN eds[based_on].new_text ELSE pyText[f]

\* FileEditor.__init__ followed by FileEditor.replace: the new editor
\* an editor that is built as one a later editor is based on
FileEditor_replace_marked(d, eds, f, overwrite, based_on, pattern, repl) ==
    LET r == smart_sub(pattern, repl, FileEditor_input(eds, f, based_on))
    IN  [pyfile |-> f,
         path |-> FileEditor_path(d, <<f, 0>>, overwrite),
         overwrite |-> overwrite,
         new_text |-> r.text,
         pattern |-> pattern,
         repl |-> repl,
         based_on |-> based_on,
         is_based_on |-> TRUE,
         count |-> r.n]

FileEditor_replace(d, eds, f, overwrite, based_on, pattern, repl) ==
    LET r == smart_sub(pattern, repl, FileEditor_input(eds, f, based_on))
    IN  [pyfile |-> f,
         path |-> FileEditor_path(d, <<f, 0>>, overwrite),
         overwrite |-> overwrite,
         new_text |-> r.text,
         pattern |-> pattern,
         repl |-> repl,
         based_on |-> based_on,
         is_based_on |-> FALSE,
         count |-> r.n]

\* a replace that never marks the editor it is based on
FileEditor_mark_never(eds, based_on, count) == eds

\* FileEditor.replace, its last statement: the editors after a replacement
\* based on the editor `based_on` made `count` substitutions
FileEditor_mark(eds, based_on, count) ==
    IF count > 0 /\ based_on # 0
    THEN [eds EXCEPT ![based_on].is_based_on = TRUE]
    ELSE eds

\* the editor of `based_on` a chained replace() of file f builds on: the
\* editor of that file which no later editor is based on (0 when none)
LatestEditor(eds, f) ==
    LET S == {i \in 1..Len(eds) : eds[i].pyfile = f /\ ~eds[i].is_based_on}
    IN  IF S = {} THEN 0 ELSE CHOOSE i \in S : \A j \in S : i <= j

\* ----------------------------------------------------------------- Replacer
\* a check that force does not override
Replacer_may_write_unforced(d, e, rb, fc) ==
    FileEditor_compare(d, e, IF rb THEN e.new_text ELSE pyText[e.pyfile])

\* a rollback that compares with nothing
Replacer_may_write_rollback(d, e, rb, fc) ==
    fc \/ rb \/ FileEditor_compare(d, e, pyText[e.pyfile])

\* Replacer.__overwrite, the condition of the write: force, or the file
\* still holds what the last confirm() or rollback() left there
Replacer_may_write(d, e, rb, fc) ==
    fc \/ FileEditor_compare(d, e, IF rb THEN e.new_text ELSE pyText[e.pyfile])

\* a loop body that skips every file once one conflict is found
Replacer_step_sticky(st, i, rb, fc) ==
    LET e == editors[i]
    IN  IF e.is_based_on THEN st
        ELSE IF st.info.failed = <<>> /\ Replacer_may_write(st.disk, e, rb, fc)
        THEN LET text == IF rb THEN pyText[e.pyfile] ELSE e.new_text
                 d2 == FileEditor_write(st.disk, e, text)
             IN  [disk |-> d2,
                  info |-> [st.info EXCEPT !.successful = Append(@, e.path)],
                  writes |-> Append(st.writes,
                                    [editor |-> i, path |-> e.path,
                                     text |-> d2[e.path]])]
        ELSE [st EXCEPT !.info.failed = Append(@, e.path)]

\* Replacer.__overwrite, the body of the loop for the i-th editor;
\* st = [disk, info, writes] is the state the loop has reached, writes the
\* calls of FileEditor.write that wrote a file
Replacer_step(st, i, rb, fc) ==
    LET e == editors[i]
    IN  IF e.is_based_on THEN st
        ELSE IF Replacer_may_write(st.disk, e, rb, fc)
        THEN LET text == IF rb THEN pyText[e.pyfile] ELSE e.new_text
                 d2 == FileEditor_write(st.disk, e, text)
             IN  [disk |-> d2,
                  info |-> [st.info EXCEPT !.successful = Append(@, e.path)],
                  writes |-> IF e.is_based_on THEN st.writes
                             ELSE Append(st.writes,
                                         [editor |-> i, path |-> e.path,
                                          text |-> d2[e.path]])]
        ELSE [st EXCEPT !.info.failed = Append(@, e.path)]

\* a loop that stops at the first conflict
RECURSIVE Replacer_overwrite_abort(_, _, _, _)
Replacer_overwrite_abort(i, st, rb, fc) ==
    IF i > Len(editors) \/ st.info.failed # <<>> THEN st
    ELSE Replacer_overwrite_abort(i + 1, Replacer_step(st, i, rb, fc), rb, fc)

\* Replacer.__overwrite: the loop over the editors from the i-th on
RECURSIVE Replacer_overwrite(_, _, _, _)
Replacer_overwrite(i, st, rb, fc) ==
    IF i > Len(editors) THEN st
    ELSE Replacer_overwrite(i + 1, Replacer_step(st, i, rb, fc), rb, fc)

\* ------------------------------------------------------------------ actions
\* replacer.join(module.replace(pattern, repl, overwrite, based_on=replacer))
\* for a module that is the file f
Replace(f, overwrite, pattern, repl) ==
    LET based_on == LatestEditor(editors, f)
        e == FileEditor_replace(disk, editors, f, overwrite, based_on,
                                pattern, repl)
    IN  /\ Len(editors) < MaxEditors
        /\ overwrite \/ ~exists(disk, e.path)
        /\ editors' =
             IF e.count > 0
             THEN Append(FileEditor_mark(editors, based_on, e.count), e)
             ELSE editors
        /\ last' = NoCall
        /\ UNCHANGED <<files, disk, pyText, confirmed, nExternal, frame>>

\* a confirm that does not look at __confirmed
Confirm_unguarded ==
    LET r == Replacer_overwrite(1,
                [disk |-> disk, info |-> NoInfo, writes |-> <<>>],
                FALSE, FALSE)
    IN  /\ confirmed' = TRUE
        /\ disk' = r.disk
        /\ last' = Call("confirm", FALSE, FALSE, r.info, r.writes)
        /\ UNCHANGED <<files, pyText, editors, nExternal, frame>>

\* a confirm that clears __confirmed before it raises
Confirm_resets ==
    /\ IF confirmed
       THEN /\ last' = Call("confirm", FALSE, TRUE, NoInfo, <<>>)
            /\ confirmed' = FALSE
            /\ UNCHANGED disk
       ELSE LET r == Replacer_overwrite(1,
                       [disk |-> disk, info |-> NoInfo, writes |-> <<>>],
                       FALSE, FALSE)
            IN  /\ confirmed' = TRUE
                /\ disk' = r.disk
                /\ last' = Call("confirm", FALSE, FALSE, r.info, r.writes)
    /\ UNCHANGED <<files, pyText, editors, nExternal, frame>>

\* Replacer.confirm
Confirm ==
    /\ IF confirmed
       THEN /\ last' = Call("confirm", FALSE, TRUE, NoInfo, <<>>)
            /\ UNCHANGED <<disk, confirmed>>
       ELSE LET r == Replacer_overwrite(1,
                       [disk |-> disk, info |-> NoInfo, writes |-> <<>>],
                       FALSE, FALSE)
            IN  /\ confirmed' = TRUE
                /\ disk' = r.disk
                /\ last' = Call("confirm", FALSE, FALSE, r.info, r.writes)
    /\ UNCHANGED <<files, pyText, editors, nExternal, frame>>

\* a rollback whose force also overrides the __confirmed check
Rollback_forced(force) ==
    /\ IF ~confirmed /\ ~force
       THEN /\ last' = Call("rollback", force, TRUE, NoInfo, <<>>)
            /\ UNCHANGED <<disk, confirmed>>
       ELSE LET r == Replacer_overwrite(1,
                       [disk |-> disk, info |-> NoInfo, writes |-> <<>>],
                       TRUE, force)
            IN  /\ confirmed' = FALSE
                /\ disk' = r.disk
                /\ last' = Call("rollback", force, FALSE, r.info, r.writes)
    /\ UNCHANGED <<files, pyText, editors, nExternal, frame>>

\* a rollback that leaves __confirmed set
Rollback_keeps_flag(force) ==
    /\ IF ~confirmed
       THEN /\ last' = Call("rollback", force, TRUE, NoInfo, <<>>)
            /\ UNCHANGED <<disk, confirmed>>
       ELSE LET r == Replacer_overwrite(1,
                       [disk |-> disk, info |-> NoInfo, writes |-> <<>>],
                       TRUE, force)
            IN  /\ confirmed' = confirmed
                /\ disk' = r.disk
                /\ last' = Call("rollback", force, FALSE, r.info, r.writes)
    /\ UNCHANGED <<files, pyText, editors, nExternal, frame>>

\* Replacer.rollback
Rollback(force) ==
    /\ IF ~confirmed
       THEN /\ last' = Call("rollback", force, TRUE, NoInfo, <<>>)
            /\ UNCHANGED <<disk, confirmed>>
       ELSE LET r == Replacer_overwrite(1,
                       [disk |-> disk, info |-> NoInfo, writes |-> <<>>],
                       TRUE, force)
            IN  /\ confirmed' = FALSE
                /\ disk' = r.disk
                /\ last' = Call("rollback", force, FALSE, r.info, r.writes)
    /\ UNCHANGED <<files, pyText, editors, nExternal, frame>>

\* another program modifies the existing file at path p: it appends the
\* character c (whitespace or not)
External(p, c) ==
    /\ nExternal < MaxExternal
    /\ exists(disk, p)
    /\ Len(disk[p]) <= MaxLen + 1
    /\ disk' = [disk EXCEPT ![p] = Append(@, c)]
    /\ nExternal' = nExternal + 1
    /\ last' = Call("external", FALSE, FALSE, NoInfo, <<>>)
    /\ UNCHANGED <<files, pyText, editors, confirmed, frame>>

Next ==
    \/ \E f \in files, overwrite \in BOOLEAN, pattern \in Patterns,
          repl \in Repls : Replace(f, overwrite, pattern, repl)
    \/ Confirm
    \/ \E force \in BOOLEAN : Rollback(force)
    \/ \E p \in PathsOf(files), c \in Chars : External(p, c)

\* no tree is built and no transaction is open
NoTree ==
    /\ files = {}
    /\ disk = <<>>
    /\ pyText = <<>>
    /\ editors = <<>>
    /\ confirmed = FALSE
    /\ nExternal = 0
    /\ last = NoCall

\* a tree of one file
Init == InitTree({"f1"}, FileTexts)

Spec == Init /\ [][Next]_vars

\* a tree of two short files
InitFiles == InitTree(AllFiles, ShortTexts)

SpecFiles == InitFiles /\ [][Next]_vars

\* ------------------------------------------------------------------ claims
InSeq(x, s) == \E i \in DOMAIN s : s[i] = x

\* the editors confirm() and rollback() do not skip
Active(eds) == {i \in DOMAIN eds : ~eds[i].is_based_on}

\* a step of confirm() that does not raise, and one of rollback()
ConfirmStep == ~confirmed /\ confirmed'
RollbackStep == confirmed /\ ~confirmed'

\* C1 as stated: when confirm() directly follows a modification of a file by
\* another program, made after an edit was staged on that file, confirm()
\* lists the file under 'failed', not under 'successful', and leaves its
\* content as the other program left it.
C1_AnyChangeIsAConflict ==
    [][(ConfirmStep /\ last.op = "external")
        => \A i \in DOMAIN editors :
             LET p == editors[i].path
             IN  disk[p] # last.pre[p]
                 => /\ InSeq(p, last'.info.failed)
                    /\ ~InSeq(p, last'.info.successful)
                    /\ disk'[p] = disk[p]]_vars

\* C1 as amended: when confirm() runs and the file of an edit staged with
\* overwrite=True (and not superseded) holds, stripped of leading and trailing
\* whitespace, another text than the one the edit was computed from, confirm()
\* lists its path under 'failed', not under 'successful', and does not write it.
C1_ConflictIsNotOverwritten ==
    [][ConfirmStep
        => \A i \in Active(editors) :
             LET e == editors[i]
             IN  (e.overwrite /\ strip(disk[e.path]) # pyText[e.pyfile])
                 => /\ InSeq(e.path, last'.info.failed)
                    /\ ~InSeq(e.path, last'.info.successful)
                    /\ \A k \in DOMAIN last'.writes :
                         last'.writes[k].path # e.path
                    /\ disk'[e.path] = disk[e.path]]_vars

\* C1 witness: confirm() found a file another program had changed after the
\* edit was staged, listed it under 'failed' and left it alone
C1_Witness ==
    /\ last.op = "confirm" /\ ~last.raised
    /\ nExternal > 0
    /\ \E i \in Active(editors) :
         /\ editors[i].overwrite
         /\ strip(last.pre[editors[i].path]) # pyText[editors[i].pyfile]
         /\ InSeq(editors[i].path, last.info.failed)
         /\ disk[editors[i].path] = last.pre[editors[i].path]

\* TRUE iff e.compare(text) lets the write happen on the filesystem d
Passes(d, e, text) == e.overwrite => strip(d[e.path]) = text

\* C2: when edit B is staged based on edit A of the same file and confirm()
\* runs while the file still holds the text the tree was built from, B's
\* new_text is written to B's path, A is never written, and A adds no entry to
\* the summary: a path of A's own is not listed and not touched.
C2_OnlyLatestGenerationWritten ==
    [][ConfirmStep
        => \A i \in Active(editors) :
             LET b == editors[i]
             IN  (b.based_on # 0 /\ Passes(disk, b, pyText[b.pyfile]))
                 => LET a == editors[b.based_on]
                    IN  /\ a.pyfile = b.pyfile
                        /\ disk'[b.path] = b.new_text \o <<NL>>
                        /\ \E k \in DOMAIN last'.writes :
                             last'.writes[k] =
                               [editor |-> i, path |-> b.path,
                                text |-> b.new_text \o <<NL>>]
                        /\ \A k \in DOMAIN last'.writes :
                             last'.writes[k].editor # b.based_on
                        /\ InSeq(b.path, last'.info.successful)
                        /\ a.path # b.path
                             => /\ disk'[a.path] = disk[a.path]
                                /\ ~InSeq(a.path, last'.info.successful)
                                /\ ~InSeq(a.path, last'.info.failed)]_vars

\* C2 witness: confirm() wrote the text of a chained edit that differs from
\* the text of the edit it is based on
C2_Witness ==
    /\ last.op = "confirm" /\ ~last.raised
    /\ \E i \in Active(editors) :
         /\ editors[i].based_on # 0
         /\ editors[editors[i].based_on].new_text # editors[i].new_text
         /\ \E k \in DOMAIN last.writes : last.writes[k].editor = i
         /\ disk[editors[i].path] = editors[i].new_text \o <<NL>>

\* C3: confirm() on a confirmed transaction raises, writes nothing and leaves
\* the transaction confirmed.
C3_DoubleConfirmRaises ==
    [][(confirmed /\ last'.op = "confirm")
        => /\ last'.raised
           /\ last'.writes = <<>>
           /\ disk' = disk
           /\ confirmed']_vars

\* C3 witness: a confirm() of a confirmed transaction with edits has raised
C3_Witness ==
    /\ last.op = "confirm" /\ last.raised
    /\ confirmed
    /\ Active(editors) # {}

\* C4: rollback() on a transaction that is not confirmed raises, with or
\* without force, and writes nothing.
C4_RollbackUnconfirmedRaises ==
    [][(~confirmed /\ last'.op = "rollback")
        => /\ last'.raised
           /\ last'.writes = <<>>
           /\ disk' = disk
           /\ ~confirmed']_vars

\* C4 witness: a forced rollback() of an unconfirmed transaction with edits
\* has raised
C4_Witness ==
    /\ last.op = "rollback" /\ last.raised /\ last.force
    /\ ~confirmed
    /\ Active(editors) # {}

\* the conflict-checked write of every editor that is not superseded: each
\* such editor whose file holds `expect` gets `text` written and is listed
\* under 'successful', every other one is left alone and listed under 'failed'
CheckedWrite(rb) ==
    \A i \in Active(editors) :
      LET e == editors[i]
          expect == IF rb THEN e.new_text ELSE pyText[e.pyfile]
          text == IF rb THEN pyText[e.pyfile] ELSE e.new_text
      IN  IF Passes(disk, e, expect)
          THEN /\ disk'[e.path] = text \o <<NL>>
               /\ InSeq(e.path, last'.info.successful)
               /\ ~InSeq(e.path, last'.info.failed)
          ELSE /\ disk'[e.path] = disk[e.path]
               /\ InSeq(e.path, last'.info.failed)
               /\ ~InSeq(e.path, last'.info.successful)

\* C5: a confirm() of a transaction that is not confirmed, in particular one
\* that was rolled back, never raises and performs the conflict-checked write;
\* a call that does not raise is a confirm() exactly when the transaction is
\* not confirmed and a rollback() exactly when it is, and each flips the flag,
\* so the calls that succeed alternate, starting with confirm().
C5_ReconfirmAfterRollback ==
    [][/\ (~confirmed /\ last'.op = "confirm")
          => (~last'.raised /\ confirmed' /\ CheckedWrite(FALSE))
       /\ (last'.op = "confirm" /\ ~last'.raised) => (~confirmed /\ confirmed')
       /\ (last'.op = "rollback" /\ ~last'.raised) => (confirmed /\ ~confirmed')
       /\ (confirmed' # confirmed)
          => (last'.op \in {"confirm", "rollback"} /\ ~last'.raised)]_vars

\* C5 witness: a confirm() has succeeded after an earlier confirm() and a
\* rollback(): no other program wrote anything, and the confirm() found a copy
\* that only the earlier confirm() can have created
C5_Witness ==
    /\ last.op = "confirm" /\ ~last.raised
    /\ nExternal = 0
    /\ \E p \in DOMAIN last.pre : p[2] > 0 /\ exists(last.pre, p)
    /\ \E i \in Active(editors) :
         /\ editors[i].overwrite
         /\ InSeq(editors[i].path, last.info.successful)

\* C6: a replace() writes no file, nor does any call but a confirm() or a
\* rollback() that does not raise; a chained replace() substitutes in the
\* new_text of the editor it is based on, a plain one in the tree's text.
C6_StagingLeavesDiskAlone ==
    [][/\ (confirmed' = confirmed /\ nExternal' = nExternal) => disk' = disk
       /\ editors' # editors
          => LET e == editors'[Len(editors')]
             IN  /\ e.count > 0
                 /\ e.new_text =
                      smart_sub(e.pattern, e.repl,
                                IF e.based_on # 0
                                THEN editors[e.based_on].new_text
                                ELSE pyText[e.pyfile]).text]_vars

\* C6 witness: a chained edit is staged, unconfirmed, whose result differs
\* from what the same replacement makes of the file on disk
C6_Witness ==
    /\ ~confirmed /\ last = NoCall
    /\ \E i \in DOMAIN editors :
         LET e == editors[i]
         IN  /\ e.based_on # 0
             /\ e.new_text #
                  smart_sub(e.pattern, e.repl, strip(disk[<<e.pyfile, 0>>])).text

\* C7 as stated, for a file saved with one final newline: with no other
\* program writing, a confirm() directly followed by rollback() lists the path
\* of every edit staged with overwrite=True under 'successful' both times,
\* with nothing under 'failed', and the rollback() leaves the file with the
\* content it had before the confirm().
C7_ConfirmRollbackRestores ==
    [][(RollbackStep /\ ~last'.force /\ nExternal = 0
          /\ last.op = "confirm" /\ ~last.raised)
        => \A i \in Active(editors) :
             LET e == editors[i]
             IN  (e.overwrite
                    /\ last.pre[e.path] = pyText[e.pyfile] \o <<NL>>)
                 => /\ InSeq(e.path, last.info.successful)
                    /\ last.info.failed = <<>>
                    /\ InSeq(e.path, last'.info.successful)
                    /\ last'.info.failed = <<>>
                    /\ disk'[e.path] = last.pre[e.path]]_vars

RECURSIVE ActivePaths(_)
ActivePaths(eds) ==
    IF eds = <<>> THEN <<>>
    ELSE LET e == eds[Len(eds)]
             front == ActivePaths(SubSeq(eds, 1, Len(eds) - 1))
         IN  IF e.is_based_on THEN front ELSE Append(front, e.path)

\* C9: rollback(force=True) writes the original text (the tree's text and a
\* newline) to the path of every edit that is not superseded, whatever the
\* file holds, and lists exactly these paths under 'successful' and none
\* under 'failed'.
C9_ForcedRollbackWritesAll ==
    [][(RollbackStep /\ last'.force)
        => /\ \A i \in Active(editors) :
                disk'[editors[i].path] = pyText[editors[i].pyfile] \o <<NL>>
           /\ last'.info.successful = ActivePaths(editors)
           /\ last'.info.failed = <<>>]_vars

\* C9 witness: a forced rollback() of two files has overwritten one that no
\* longer held the edit's new_text
C9_Witness ==
    /\ last.op = "rollback" /\ ~last.raised /\ last.force
    /\ Len(last.info.successful) > 1
    /\ \E i \in Active(editors) :
         /\ editors[i].overwrite
         /\ strip(last.pre[editors[i].path]) # editors[i].new_text
         /\ disk[editors[i].path] = pyText[editors[i].pyfile] \o <<NL>>
         /\ disk[editors[i].path] # last.pre[editors[i].path]

\* how many times x occurs in the sequence s
Occurrences(x, s) == Cardinality({k \in DOMAIN s : s[k] = x})

C11_FirstConflictStopsWrites ==
    [][ConfirmStep
        => \A k, j \in Active(editors) :
             (k < j /\ InSeq(editors[k].path, last'.info.failed))
             => /\ InSeq(editors[j].path, last'.info.failed)
                /\ disk'[editors[j].path] = disk[editors[j].path]]_vars

\* C11 as amended: in a confirm() over several files, when the conflict check
\* first fails on the k-th file, the files before it remain written with
\* their new_text, the k-th file is listed under 'failed' and not written,
\* and every later file is checked on its own: it is written with its
\* new_text and listed under 'successful' when its own check passes, and is
\* listed under 'failed' and left alone when it does not.
C11_ConflictsArePerFile ==
    [][ConfirmStep
        => \A k \in Active(editors) :
             (/\ InSeq(editors[k].path, last'.info.failed)
              /\ \A i \in Active(editors) :
                   i < k => ~InSeq(editors[i].path, last'.info.failed))
             => /\ \A i \in Active(editors) :
                     i < k => /\ disk'[editors[i].path]
                                   = editors[i].new_text \o <<NL>>
                              /\ InSeq(editors[i].path, last'.info.successful)
                /\ disk'[editors[k].path] = disk[editors[k].path]
                /\ \A j \in Active(editors) :
                     j > k =>
                       LET e == editors[j]
                       IN  IF Passes(disk, e, pyText[e.pyfile])
                           THEN /\ disk'[e.path] = e.new_text \o <<NL>>
                                /\ InSeq(e.path, last'.info.successful)
                                /\ ~InSeq(e.path, last'.info.failed)
                           ELSE /\ disk'[e.path] = disk[e.path]
                                /\ InSeq(e.path, last'.info.failed)
                                /\ ~InSeq(e.path, last'.info.successful)]_vars

\* C11 witness: confirm() found a conflict on the first of two files and
\* then wrote the new_text of the second
C11_Witness ==
    /\ last.op = "confirm" /\ ~last.raised
    /\ \E k, j \in Active(editors) :
         /\ k < j
         /\ editors[k].pyfile # editors[j].pyfile
         /\ last.info.failed = <<editors[k].path>>
         /\ disk[editors[k].path] = last.pre[editors[k].path]
         /\ last.info.successful = <<editors[j].path>>
         /\ disk[editors[j].path] = editors[j].new_text \o <<NL>>
         /\ disk[editors[j].path] # last.pre[editors[j].path]

\* ------------------------------------------------- matching with brackets
\* most pieces a searched string is made of
MaxTokens == 4
\* the pieces: letters, balanced spans, a span that holds a newline and an
\* unpaired bracket
Tokens ==
    {<<"a">>, <<"b">>, <<"c">>, <<"(">>, <<"(", "b", ")">>,
     <<"(", "c", ")">>, <<"[", "c", "]">>, <<"(", NL, ")">>}

RECURSIVE TokenStrings(_)
TokenStrings(n) ==
    IF n = 0 THEN {<<>>}
    ELSE LET S == TokenStrings(n - 1)
         IN  S \cup {s \o t : s \in S, t \in Tokens}

\* the default mark_ignore
MarkIgnore == <<"{", "}">>
\* the pattern text and the ignore sets of the docstring of SmartPattern
MatchPatterns == {<<"a", "{", "}", "b">>}
Ignores == {<<"(", ")">>, <<"(", ")", "[", "]">>}
\* a pattern text whose pieces match the empty string
StarPattern == <<"a", "*", "{", "}">>
\* the SmartPattern objects: the docstring's, without and with re.DOTALL, and
\* the one that matches the empty string
SmartPatterns ==
    {SmartPattern(p, d, ig, MarkIgnore) :
       p \in MatchPatterns, d \in BOOLEAN, ig \in Ignores}
      \cup {SmartPattern(StarPattern, FALSE, <<"(", ")">>, MarkIgnore)}

\* a call of smart_match or smart_search is about to be made
InitMatch ==
    /\ NoTree
    /\ frame \in {[fn |-> "none", pc |-> "call", pattern |-> p,
                   string |-> s, ret |-> None] :
                     p \in SmartPatterns, s \in TokenStrings(MaxTokens)}

\* smart_match(pattern, string)
SmartMatchCall ==
    /\ frame.pc = "call"
    /\ frame' = [frame EXCEPT !.fn = "smart_match", !.pc = "done",
                              !.ret = smart_match(frame.pattern, frame.string)]
    /\ UNCHANGED txVars

\* smart_search(pattern, string)
SmartSearchCall ==
    /\ frame.pc = "call"
    /\ frame' = [frame EXCEPT !.fn = "smart_search", !.pc = "done",
                              !.ret = smart_search(frame.pattern, frame.string)]
    /\ UNCHANGED txVars

NextMatch == SmartMatchCall \/ SmartSearchCall

SpecMatch == InitMatch /\ [][NextMatch]_vars

\* the number of l minus the number of r among the first k characters of s
RECURSIVE Depth(_, _, _, _)
Depth(s, k, l, r) ==
    IF k = 0 THEN 0
    ELSE Depth(s, k - 1, l, r)
           + (IF s[k] = l THEN 1 ELSE IF s[k] = r THEN -1 ELSE 0)

\* s is one balanced span of the brackets l and r on one line: it opens with
\* l and its last character closes that l
BalancedSpan(s, l, r) ==
    /\ Len(s) >= 2
    /\ s[1] = l
    /\ Depth(s, Len(s), l, r) = 0
    /\ \A k \in 1..(Len(s) - 1) : Depth(s, k, l, r) > 0
    /\ \A k \in DOMAIN s : s[k] # NL

\* the bracket pairs of an ignore set
Pairs(ignore) ==
    {<<ignore[k], ignore[k + 1]>> : k \in {j \in 1..(Len(ignore) - 1) : j % 2 = 1}}

\* s is "a", then nothing or one balanced span of a pair of `pairs`, then "b"
OneSpanForm(s, pairs) ==
    /\ Len(s) >= 2
    /\ s[1] = "a"
    /\ s[Len(s)] = "b"
    /\ \/ Len(s) = 2
       \/ \E pr \in pairs : BalancedSpan(SubSeq(s, 2, Len(s) - 1), pr[1], pr[2])

\* s is "a", then any number of balanced spans of pairs of `pairs`, then "b"
RECURSIVE Spans(_, _)
Spans(s, pairs) ==
    \/ s = <<>>
    \/ \E n \in 2..Len(s) :
         /\ \E pr \in pairs : BalancedSpan(SubSeq(s, 1, n), pr[1], pr[2])
         /\ Spans(SubSeq(s, n + 1, Len(s)), pairs)
ManySpansForm(s, pairs) ==
    /\ Len(s) >= 2
    /\ s[1] = "a"
    /\ s[Len(s)] = "b"
    /\ Spans(SubSeq(s, 2, Len(s) - 1), pairs)

MatchDone(fn, ignore) ==
    /\ frame.pc = "done"
    /\ frame.fn = fn
    /\ frame.pattern.pattern = <<"a", "{", "}", "b">>
    /\ frame.pattern.ignore = ignore
    /\ ~frame.pattern.dotall

\* C12: with pattern text "a{}b" and ignore set "()", smart_match matches
\* "ab" and "a(c)b" but not "a(b)c"; it matches a string exactly when the
\* string starts with "a", then nothing or one balanced parenthesised span,
\* then "b", and the match is that prefix, the span included as it stands;
\* smart_search finds a match exactly when the string has such a piece at
\* some offset, and what it returns is such a piece of the string.
C12_OptionalParenSpan ==
    LET s == frame.string
        r == frame.ret
        pairs == {<<"(", ")">>}
    IN  /\ MatchDone("smart_match", <<"(", ")">>)
           => /\ s = <<"a", "b">> => r = Match(0, 2, s)
              /\ s = <<"a", "(", "c", ")", "b">> => r = Match(0, 5, s)
              /\ s = <<"a", "(", "b", ")", "c">> => r = None
              /\ r.matched
                   <=> \E m \in 2..Len(s) : OneSpanForm(SubSeq(s, 1, m), pairs)
              /\ r.matched
                   => /\ r.start = 0
                      /\ r.group = SubSeq(s, 1, r.end)
                      /\ OneSpanForm(r.group, pairs)
        /\ MatchDone("smart_search", <<"(", ")">>)
           => /\ r.matched
                   <=> \E i \in 1..Len(s), m \in 2..Len(s) :
                         OneSpanForm(SubSeq(s, i, m), pairs)
              /\ r.matched
                   => /\ r.group = SubSeq(s, r.start + 1, r.end)
                      /\ OneSpanForm(r.group, pairs)

\* C12 witness: smart_match has skipped a parenthesised span and matched the
\* "b" after it, in a string that goes on after the match
C12_Witness ==
    /\ MatchDone("smart_match", <<"(", ")">>)
    /\ frame.string = <<"a", "(", "c", ")", "b", "c">>
    /\ frame.ret = Match(0, 5, <<"a", "(", "c", ")", "b">>)

\* C13: with ignore set "()[]", pattern text "a{}b" matches "a[c]b" and
\* "a(c)[c]b" but not "a(b)[b]c": smart_match matches every string that
\* starts with "a", then any number of balanced spans of the two bracket
\* types, then "b".
C13_ConsecutiveSpansSkipped ==
    LET s == frame.string
        r == frame.ret
        pairs == {<<"(", ")">>, <<"[", "]">>}
    IN  MatchDone("smart_match", <<"(", ")", "[", "]">>)
        => /\ s = <<"a", "[", "c", "]", "b">> => r = Match(0, 5, s)
           /\ s = <<"a", "(", "c", ")", "[", "c", "]", "b">>
                => r = Match(0, 8, s)
           /\ s = <<"a", "(", "b", ")", "[", "b", "]", "c">> => r = None
           /\ (\E m \in 2..Len(s) : ManySpansForm(SubSeq(s, 1, m), pairs))
                => r.matched

\* ------------------------------------------------------ loops over matches
\* longest string searched
MaxStr == 3
LoopChars == {"a", "(", ")", NL}

RECURSIVE StringsOver(_, _)
StringsOver(C, n) ==
    IF n = 0 THEN {<<>>}
    ELSE LET S == StringsOver(C, n - 1)
         IN  S \cup {Append(t, c) : t \in {u \in S : Len(u) = n - 1}, c \in C}

\* SmartPattern objects, with and without the mark, that match the empty
\* string or not, at the start of what is searched or after it
LoopPatterns ==
    {SmartPattern(p, FALSE, <<"(", ")">>, MarkIgnore) :
       p \in {<<>>, <<"a">>, <<"a", "*">>, <<"a", "*", "{", "}">>,
              <<"a", "{", "}", NL, "?">>, <<"$">>}}

\* the calls: the function, count or maxsplit, and linemode
LoopCalls ==
    ({"smart_findall"} \X {0} \X {FALSE})
    \cup ({"real_findall"} \X {0} \X BOOLEAN)
    \cup ({"smart_sub", "smart_subn", "smart_split", "rsplit", "lsplit"}
            \X {0, 1} \X {FALSE})

InitLoop ==
    /\ NoTree
    /\ frame = NoFrame

\* one of the functions is called with a pattern and a string
LoopCall ==
    /\ frame.pc = "none"
    /\ \E c \in LoopCalls, p \in LoopPatterns,
          s \in StringsOver(LoopChars, MaxStr) :
         frame' = LoopFrame(c[1], p, s, c[2], c[3], <<"b">>)
    /\ UNCHANGED txVars

\* a step of the running function fn: the code before its loop, or the test
\* of the loop and its body
LoopAction(fn, entered, stepped) ==
    /\ frame.fn = fn
    /\ frame.pc \in {"call", "loop"}
    /\ frame' = IF frame.pc = "call" THEN entered ELSE stepped
    /\ UNCHANGED txVars

SmartFindall ==
    LoopAction("smart_findall", [frame EXCEPT !.pc = "loop"],
               smart_findall_step(frame))
RealFindall ==
    LoopAction("real_findall", [frame EXCEPT !.pc = "loop"],
               real_findall_step(frame))
SmartSub == LoopAction("smart_sub", smart_sub_enter(frame), smart_sub_step(frame))
SmartSubn ==
    LoopAction("smart_subn", smart_subn_enter(frame), smart_subn_step(frame))
SmartSplit == LoopAction("smart_split", split_enter(frame), split_step(frame))
Rsplit == LoopAction("rsplit", split_enter(frame), split_step(frame))
Lsplit == LoopAction("lsplit", split_enter(frame), split_step(frame))

\* the function that was called runs on
LoopRun ==
    \/ SmartFindall
    \/ RealFindall
    \/ SmartSub
    \/ SmartSubn
    \/ SmartSplit
    \/ Rsplit
    \/ Lsplit

NextLoop == LoopCall \/ LoopRun

SpecLoop == InitLoop /\ [][NextLoop]_vars

\* C14: smart_findall, real_findall, smart_sub, smart_subn, smart_split,
\* rsplit and lsplit cannot loop for ever, also on a pattern that matches the
\* empty string: every test of the loop either ends the function or is
\* followed by one run of the body, every run of the body after which the
\* loop goes on has removed at least one character from the remaining input,
\* and the body runs at most len(input) + 1 times.
C14_LoopsTerminate ==
    [][/\ frame.pc = "loop"
           => \/ frame'.pc = "done"
              \/ /\ frame'.pc = "loop"
                 /\ frame'.iters = frame.iters + 1
                 /\ Len(frame'.string) < Len(frame.string)
       /\ frame'.iters <= Len(frame'.string0) + 1]_vars

\* C14 witness: a loop has run len(input) + 1 times over an input of two or
\* more characters, each time on an empty match, and returned
C14_Witness ==
    /\ frame.pc = "done"
    /\ frame.fn = "smart_sub"
    /\ frame.pattern.pattern = <<"a", "*">>
    /\ Len(frame.string0) >= 2
    /\ frame.iters = Len(frame.string0) + 1
    /\ frame.ret # Raised

\* ------------------------------------------------------------ the text tree
\* The nodes of the tree a PyFile builds from its text.  A node is a record
\*   [cls, text, start_line, name, _header, children]
\* with children a sequence of nodes; a node is addressed from the root by
\* its path, the sequence of the offsets (from 1) it is reached by, offset 0
\* standing for the header of the node before it.
NULL == <<"N", "U", "L", "L">>

\* line_count(string)
line_count(string) == 1 + str_count(string, NL)

\* counted_strip(string)[1]: the number of newlines the string starts with
counted_strip_l(string) == re_match(<<NL, "*">>, string, FALSE).end

\* str.replace(old, new) for a non-empty old
RECURSIVE str_replace(_, _, _)
str_replace(s, old, new) ==
    LET i == str_find(s, old, 0)
    IN  IF i < 0 THEN s
        ELSE StrTo(s, i) \o new \o str_replace(StrFrom(s, i + Len(old)), old, new)

\* str.startswith(prefix)
str_startswith(s, prefix) == StrTo(s, Len(prefix)) = prefix

\* rsplit(pattern, string) for a plain str pattern: the function run to its
\* return
RECURSIVE split_run(_)
split_run(fr) == IF fr.pc = "done" THEN fr.ret ELSE split_run(split_step(fr))

rsplit(pattern, string) ==
    split_run(split_enter(LoopFrame("rsplit", StrPattern(pattern), string, 0,
                                    FALSE, <<>>)))

\* real_findall(pattern, string, linemode=True) for a plain str pattern: the
\* function run to its return, a sequence of <<nline, match>>
RECURSIVE real_findall_run(_)
real_findall_run(fr) ==
    IF fr.pc = "done" THEN fr.ret ELSE real_findall_run(real_findall_step(fr))

real_findall(pattern, string) ==
    real_findall_run([LoopFrame("real_findall", StrPattern(pattern), string, 0,
                                TRUE, <<>>) EXCEPT !.pc = "loop"])

\* PyText.__init__ followed by the subclass's post-init, which all strip the
\* text and add the number of leading newlines to start_line
TextTree(cls, path_or_text, start_line, name, header, children) ==
    [cls |-> cls, text |-> counted_strip(path_or_text),
     start_line |-> start_line + counted_strip_l(path_or_text),
     name |-> name, _header |-> header, children |-> children]

\* PyContent(path_or_text, start_line=start_line)
PyContent(path_or_text, start_line) ==
    TextTree("PyContent", path_or_text, start_line, NULL, <<>>, <<>>)

\* the name a lookup leaves that raises AttributeError on None
NoName == <<"AttributeError">>

\* searched.group()[start:-1], the name in the header line a search found
name_found(searched, start) ==
    IF searched.matched
    THEN SubSeq(searched.group, start + 1, Len(searched.group) - 1)
    ELSE NoName

\* PyFunc.__texttree_post_init__: the name of the function, with "()"
PyFunc_name(text) ==
    name_found(re_search(<<"d", "e", "f", " ", ".", "*", "?", "\\", "(">>,
                         text, FALSE),
               4) \o <<"(", ")">>

\* PyFunc(path_or_text, start_line=start_line), and PyMethod
PyFunc(cls, path_or_text, start_line) ==
    TextTree(cls, path_or_text, start_line,
             PyFunc_name(counted_strip(path_or_text)), <<>>, <<>>)

\* PyProperty(path_or_text, start_line=start_line): the name without "()"
PyProperty(path_or_text, start_line) ==
    [PyFunc("PyProperty", path_or_text, start_line)
       EXCEPT !.name = SubSeq(@, 1, Len(@) - 2)]

\* PyClass.children, the child built from _str
PyClass_child(_str, start_line) ==
    IF \/ str_startswith(_str, <<"\n", "@", "p", "r", "o", "p", "e", "r",
                                 "t", "y">>)
       \/ str_startswith(_str,
            <<"\n", "@", "c", "a", "c", "h", "e", "d", "_", "p", "r", "o",
              "p", "e", "r", "t", "y">>)
    THEN PyProperty(_str, start_line)
    ELSE PyFunc("PyMethod", _str, start_line)

\* PyClass.children, the loop over line_count_iter(rsplit(...)): pieces[k] is
\* _str, i the line count so far; gives <<_header, children>>
RECURSIVE PyClass_children_loop(_, _, _, _, _, _)
PyClass_children_loop(pieces, k, i, start_line, header, children) ==
    IF k > Len(pieces) THEN <<header, children>>
    ELSE PyClass_children_loop(
             pieces, k + 1, i + str_count(pieces[k], NL), start_line,
             IF k = 1
             THEN str_replace(pieces[k], <<NL>>, <<NL, " ", " ", " ", " ">>)
             ELSE header,
             IF k = 1 THEN children
             ELSE Append(children,
                         PyClass_child(pieces[k], start_line + i - 1)))

\* PyClass.__texttree_post_init__: the name of the class
PyClass_name(text) ==
    name_found(re_search(<<"c", "l", "a", "s", "s", " ", ".", "*", "?", "[",
                           "(", ":", "]">>,
                         text, FALSE),
               6)

\* PyClass(path_or_text, start_line=start_line) with its children
PyClass_built(node, hc) == [node EXCEPT !._header = hc[1], !.children = hc[2]]

PyClass_children(node) ==
    PyClass_children_loop(
        rsplit(<<"(", "?", ":", "\n", "@", ".", "*", ")", "*", "\n", "d",
                 "e", "f", " ">>,
               str_replace(node.text, <<NL, " ", " ", " ", " ">>, <<NL>>)),
        1, 1, node.start_line, <<>>, <<>>)

PyClass_init(node) == PyClass_built(node, PyClass_children(node))

PyClass(path_or_text, start_line) ==
    PyClass_init(TextTree("PyClass", path_or_text, start_line,
                          PyClass_name(counted_strip(path_or_text)), <<>>,
                          <<>>))

\* PyFile.children, what the loop body does with s: "def", "class", "dec"
\* or "store"
PyFile_kind(s) ==
    CASE re_match(<<"\n", "d", "e", "f", " ">>, s, FALSE).matched -> "def"
      [] re_match(<<"\n", "c", "l", "a", "s", "s", " ">>, s, FALSE).matched -> "class"
      [] re_match(<<"\n", "@">>, s, FALSE).matched -> "dec"
      [] OTHER -> "store"

\* PyFile.children: the children with a PyContent for what is stored
PyFile_flush(children, stored, start_line) ==
    IF stored # <<>> THEN Append(children, PyContent(stored, start_line))
    ELSE children

\* PyFile.children: the PyFunc or PyClass of the text at start_line
PyFile_child(kind, text, start_line) ==
    IF kind = "def" THEN PyFunc("PyFunc", text, start_line)
    ELSE PyClass(text, start_line)

\* PyFile.children, the loop over line_count_iter(rsplit(...)) and the code
\* after it: pieces[k] is s, n the line count so far
RECURSIVE PyFile_children_loop(_, _, _, _, _, _, _)

\* PyFile.children, the loop body for a piece s of the given kind
PyFile_children_body(pieces, k, n, header_lines, children, stored, dec, kind) ==
    IF kind \in {"def", "class"}
    THEN PyFile_children_loop(
             pieces, k + 1, n + str_count(pieces[k], NL), header_lines,
             Append(PyFile_flush(children, stored,
                                 header_lines + n - line_count(stored \o dec)),
                    PyFile_child(kind, dec \o pieces[k],
                                 header_lines + n - line_count(dec))),
             <<>>, <<>>)
    ELSE PyFile_children_loop(
             pieces, k + 1, n + str_count(pieces[k], NL), header_lines,
             children,
             IF kind = "dec" THEN stored ELSE stored \o pieces[k],
             IF kind = "dec" THEN dec \o pieces[k] ELSE dec)

PyFile_children_loop(pieces, k, n, header_lines, children, stored, dec) ==
    IF k > Len(pieces)
    THEN PyFile_flush(children, stored,
                      header_lines + n - str_count(pieces[Len(pieces)], NL)
                        - line_count(stored)
                        + line_count(pieces[Len(pieces)]) - 1)
    ELSE PyFile_children_body(pieces, k, n, header_lines, children, stored,
                              dec, PyFile_kind(pieces[k]))

\* PyFile.children, the module docstring: the second match when the first
\* found nothing
PyFile_docstring_else(matched, text) ==
    IF matched.matched THEN matched
    ELSE re_match(<<"'", "'", "'", ".", "*", "?", "'", "'", "'">>, text, TRUE)

\* PyFile.children, the module docstring: the match of the text's start
PyFile_docstring(text) ==
    PyFile_docstring_else(
        re_match(<<"\"", "\"", "\"", ".", "*", "?", "\"", "\"", "\"">>, text, TRUE),
        text)

\* PyFile.children after the module docstring was looked for
PyFile_children(node, matched) ==
    [node EXCEPT
       !._header = matched.group,
       !.children =
          PyFile_children_loop(
              rsplit(<<"\n", "[", "^", "\\", "s", ")", "\\", "]", "}", "]">>,
                     StrFrom(node.text, matched.end)),
              1, 1, line_count(matched.group), <<>>, <<>>, <<>>)]

PyFile_post_init(node) == PyFile_children(node, PyFile_docstring(node.text))

\* PyFile(path_or_text) with its children; name is the stem of its path
PyFile(path_or_text, name) ==
    PyFile_post_init(TextTree("PyFile", path_or_text, 1, name, <<>>, <<>>))

\* PyFile.header and PyClass.header
header(node) == PyContent(node._header, 1)

\* the node at a path from the root
Child(parent, k) == IF k = 0 THEN header(parent) ELSE parent.children[k]

RECURSIVE NodeAt(_, _)
NodeAt(root, path) ==
    IF path = <<>> THEN root
    ELSE Child(NodeAt(root, SubSeq(path, 1, Len(path) - 1)), path[Len(path)])

\* the paths of the nodes below and including the node at path: its children,
\* and its header when it builds one
RECURSIVE PathsBelow(_, _)
PathsUnder(root, path, node) ==
    {path}
      \cup (IF node.cls \in {"PyFile", "PyClass"}
            THEN {Append(path, 0)} ELSE {})
      \cup UNION {PathsBelow(root, Append(path, k)) :
                    k \in DOMAIN node.children}

PathsBelow(root, path) == PathsUnder(root, path, NodeAt(root, path))

\* PyText.findall(pattern) at a node, the findings as <<path, line, group>>
RECURSIVE findall(_, _, _)

\* PyText.findall, the findings of a node without children: those of found
\* whose group is not empty
findall_found(path, self, found) ==
    [k \in DOMAIN found |->
       <<path, self.start_line + found[k][1] - 1, found[k][2].group>>]

findall_leaf(path, self, pattern) ==
    findall_found(path, self,
                  SelectSeq(real_findall(<<".", "*">> \o pattern \o <<".", "*">>,
                                         self.text),
                            LAMBDA f : f[2].group # <<>>))

\* PyText.findall, the findings of the children k.. of a node (k = 0: of its
\* header and its children)
RECURSIVE findall_children(_, _, _, _, _)
findall_children(root, path, self, k, pattern) ==
    IF k > Len(self.children) THEN <<>>
    ELSE findall(root, Append(path, k), pattern)
           \o findall_children(root, path, self, k + 1, pattern)

findall_at(root, path, self, pattern) ==
    IF self.children = <<>> THEN findall_leaf(path, self, pattern)
    ELSE findall_children(root, path, self, 0, pattern)

findall(root, path, pattern) ==
    findall_at(root, path, NodeAt(root, path), pattern)

\* ------------------------------------------------------------------ names
\* what jumpto leaves: the path of the node it returns, or a ValueError
Jumped(path) == [raised |-> FALSE, path |-> path]
JumpRaised == [raised |-> TRUE, path |-> <<>>]

\* PyText.children_dict[name]: the offset of the child the dictionary holds
\* under the name, the last child of that name; 0 when there is none
children_dict(self, name) ==
    IF \E k \in DOMAIN self.children : self.children[k].name = name
    THEN CHOOSE k \in DOMAIN self.children :
            /\ self.children[k].name = name
            /\ \A j \in DOMAIN self.children :
                  self.children[j].name = name => j <= k
    ELSE 0

RECURSIVE jumpto(_, _, _)

\* PyText.jumpto after the split of a target that is not empty: splits[0]
\* is first, splits[1] is rest, found the offset of the child named first
jumpto_splits(root, path, self, first, rest, found) ==
    IF first = <<>>
    THEN IF path # <<>>
         THEN jumpto(root, SubSeq(path, 1, Len(path) - 1), rest)
         ELSE JumpRaised
    ELSE IF found # 0 THEN jumpto(root, Append(path, found), rest)
    ELSE IF self.name = first THEN jumpto(root, path, rest)
    ELSE JumpRaised

\* PyText.jumpto, re.split("\\.", target, maxsplit=1): dot is the offset of
\* the first "." of the target, -1 when it has none
jumpto_split(root, path, self, target, dot) ==
    jumpto_splits(root, path, self,
                  IF dot < 0 THEN target ELSE StrTo(target, dot),
                  IF dot < 0 THEN <<>> ELSE StrFrom(target, dot + 1),
                  children_dict(self,
                                IF dot < 0 THEN target
                                ELSE StrTo(target, dot)))

\* PyText.jumpto(target) called on the node at path
jumpto(root, path, target) ==
    IF target = <<>> THEN Jumped(path)
    ELSE jumpto_split(root, path, NodeAt(root, path), target,
                      str_find(target, <<".">>, 0))

\* PyText.absname of the node at path: the names from the root down,
\* connected with dots, as the code connects them
RECURSIVE absname(_, _)
absname(root, path) ==
    IF path = <<>> THEN root.name
    ELSE absname(root, SubSeq(path, 1, Len(path) - 1))
           \o str_replace(<<".">> \o NodeAt(root, path).name,
                          <<".">> \o NULL, <<>>)

\* ------------------------------------------------------------ docstrings
\* PyFunc.doc and PyClass.doc, the text of the docstring that was searched
\* for: searched.group()[3:-3] without the indentation, "" when none
doc_searched(searched) ==
    IF searched.matched
    THEN str_replace(SubSeq(searched.group, 4, Len(searched.group) - 3),
                     <<NL, " ", " ", " ", " ">>, <<NL>>)
    ELSE <<>>

\* PyFunc.doc.text
PyFunc_doc(self) ==
    doc_searched(re_search(<<"\"", "\"", "\"", ".", "*", "?", "\"", "\"", "\"">>,
                           self.text, TRUE))

\* what a doc leaves that refers to itself (RecursionError)
DocRecursion == <<"RecursionError">>

\* PyClass.doc.text after the class's own docstring _doc was looked for and
\* jumpto("__init__") gave jumped
PyClass_doc_else(root, path, _doc, jumped) ==
    IF _doc # <<>> THEN _doc
    ELSE IF jumped.raised THEN <<>>
    ELSE IF jumped.path = path THEN DocRecursion
    ELSE PyFunc_doc(NodeAt(root, jumped.path))

\* PyClass.doc.text of the class at path
PyClass_doc(root, path) ==
    PyClass_doc_else(
        root, path,
        doc_searched(re_search(<<"\"", "\"", "\"", ".", "*", "?", "\"", "\"", "\"">>,
                               header(NodeAt(root, path)).text, TRUE)),
        jumpto(root, path, <<"_", "_", "i", "n", "i", "t", "_", "_">>))

\* ------------------------------------------------- findall over the tree
\* most blocks (statements, functions, classes) of a file text
MaxBlocks == 2

\* the blocks of a file text: a statement, a function, a decorated function,
\* a class without methods, a class with a method and a class whose name
\* starts with the text of NULL
Blocks ==
    {<<"x", "\n">>,
     <<"d", "e", "f", " ", "f", "(", ")", ":", "\n", " ", " ", " ", " ", "y",
       "\n">>,
     <<"@", "d", "\n", "d", "e", "f", " ", "f", "(", ")", ":", "\n", " ",
       " ", " ", " ", "y", "\n">>,
     <<"c", "l", "a", "s", "s", " ", "C", ":", "\n", " ", " ", " ", " ", "x",
       "\n">>,
     <<"c", "l", "a", "s", "s", " ", "C", ":", "\n", " ", " ", " ", " ", "d",
       "e", "f", " ", "m", "(", ")", ":", "\n", " ", " ", " ", " ", " ", " ",
       " ", " ", "y", "\n">>,
     <<"c", "l", "a", "s", "s", " ", "N", "U", "L", "L", "C", ":", "\n", " ",
       " ", " ", " ", "x", "\n">>}

\* what a file text starts with: nothing or a blank line, then nothing or a
\* module docstring
Leads == {<<>>, <<NL>>}
Docs == {<<>>, <<"\"", "\"", "\"", "d", "\"", "\"", "\"", "\n">>}

RECURSIVE BlockTexts(_)
BlockTexts(n) ==
    IF n = 0 THEN {<<>>}
    ELSE {<<>>} \cup {t \o b : t \in BlockTexts(n - 1), b \in Blocks}

\* texts of one class, which follow a statement: with a docstring and an __init__ that has one,
\* with only the one of __init__, with only its own, and with neither
ClassTexts ==
    {<<"c", "l", "a", "s", "s", " ", "C", ":", "\n", " ", " ", " ", " ",
       "\"", "\"", "\"", "c", "\"", "\"", "\"", "\n", " ", " ", " ", " ",
       "d", "e", "f", " ", "_", "_", "i", "n", "i", "t", "_", "_", "(", ")",
       ":", "\n", " ", " ", " ", " ", " ", " ", " ", " ", "\"", "\"", "\"",
       "i", "\"", "\"", "\"", "\n">>,
     <<"c", "l", "a", "s", "s", " ", "C", ":", "\n", " ", " ", " ", " ", "d",
       "e", "f", " ", "_", "_", "i", "n", "i", "t", "_", "_", "(", ")", ":",
       "\n", " ", " ", " ", " ", " ", " ", " ", " ", "\"", "\"", "\"", "i",
       "\"", "\"", "\"", "\n">>,
     <<"c", "l", "a", "s", "s", " ", "C", ":", "\n", " ", " ", " ", " ",
       "\"", "\"", "\"", "c", "\"", "\"", "\"", "\n", " ", " ", " ", " ",
       "x", "\n">>,
     <<"c", "l", "a", "s", "s", " ", "C", ":", "\n", " ", " ", " ", " ", "d",
       "e", "f", " ", "_", "_", "i", "n", "i", "t", "_", "_", "(", ")", ":",
       "\n", " ", " ", " ", " ", " ", " ", " ", " ", "y", "\n">>}

\* a statement and a decorated coroutine function
AsyncText ==
    <<"x", "\n", "@", "d", "\n", "a", "s", "y", "n", "c", " ", "d", "e", "f",
      " ", "f", "(", ")", ":", "\n", " ", " ", " ", " ", "y", "\n">>

\* the file texts a PyFile is built from
Sources ==
    {l \o d \o t : l \in Leads, d \in Docs, t \in BlockTexts(MaxBlocks)}
      \cup {<<"x", NL>> \o c : c \in ClassTexts}
      \cup {AsyncText}

\* the patterns of findall
FindPatterns == {<<"x">>, <<"y">>, <<"d">>}

InitTextTree == NoTree /\ frame = NoFrame

\* PyFile(text): the tree is built from a file text
PyFileCall ==
    /\ frame = NoFrame
    /\ \E source \in Sources :
          frame' = [fn |-> "PyFile", pc |-> "done", source |-> source,
                    root |-> PyFile(source, NULL)]
    /\ UNCHANGED txVars

\* N.findall(pattern) for a node N of the tree
Findall ==
    /\ frame.fn = "PyFile"
    /\ \E path \in PathsBelow(frame.root, <<>>), pattern \in FindPatterns :
          frame' = [fn |-> "findall", pc |-> "done", source |-> frame.source,
                    root |-> frame.root, path |-> path, pattern |-> pattern,
                    ret |-> findall(frame.root, path, pattern)]
    /\ UNCHANGED txVars

\* the targets of jumpto
Targets ==
    {NULL, <<"C">>, <<"f", "(", ")">>, <<".">>,
     <<"C", ".", "m", "(", ")">>, <<".", "N", "U", "L", "L">>}

\* N.jumpto(target) for a node N of the tree
Jumpto ==
    /\ frame.fn = "PyFile"
    /\ \E path \in PathsBelow(frame.root, <<>>), target \in Targets :
          frame' = [fn |-> "jumpto", pc |-> "done", source |-> frame.source,
                    root |-> frame.root, path |-> path, target |-> target,
                    ret |-> jumpto(frame.root, path, target)]
    /\ UNCHANGED txVars

\* N.absname for a node N of the tree
Absname ==
    /\ frame.fn = "PyFile"
    /\ \E path \in PathsBelow(frame.root, <<>>) :
          frame' = [fn |-> "absname", pc |-> "done", source |-> frame.source,
                    root |-> frame.root, path |-> path,
                    ret |-> absname(frame.root, path)]
    /\ UNCHANGED txVars

\* N.doc.text for a class N of the tree
Doc ==
    /\ frame.fn = "PyFile"
    /\ \E path \in PathsBelow(frame.root, <<>>) :
          /\ NodeAt(frame.root, path).cls = "PyClass"
          /\ frame' = [fn |-> "doc", pc |-> "done", source |-> frame.source,
                       root |-> frame.root, path |-> path,
                       ret |-> PyClass_doc(frame.root, path)]
    /\ UNCHANGED txVars

NextTextTree == PyFileCall \/ Findall \/ Jumpto \/ Absname \/ Doc

SpecTextTree == InitTextTree /\ [][NextTextTree]_vars

\* the lines of a file text
Lines(source) == str_split(source, <<NL>>)

\* line number nline of the file text is, up to the surrounding whitespace,
\* the line linestr
IsLine(source, nline, linestr) ==
    /\ nline \in DOMAIN Lines(source)
    /\ strip(Lines(source)[nline]) = strip(linestr)

\* C15: line-number fidelity: after N.findall(p) for a node N of the tree of
\* a file text (with or without a leading blank line, a module docstring,
\* decorators), every finding's line number designates, in the file text, the
\* line the finding shows, and the start_line of every child of the file is
\* the number of the line its text starts with.
C15_LineNumberFidelity ==
    frame.fn = "findall"
        => /\ \A k \in DOMAIN frame.ret :
                 IsLine(frame.source, frame.ret[k][2], frame.ret[k][3])
           /\ \A k \in DOMAIN frame.root.children :
                 LET child == frame.root.children[k]
                 IN  IsLine(frame.source, child.start_line,
                            Lines(child.text)[1])

\* C16: jumpto(target) with the sentinel "NULL" as the target raises the
\* ValueError of a name that does not resolve, from every node of the
\* tree, whether or not the node has a child the sentinel names.
C16_SentinelRejected ==
    (frame.fn = "jumpto" /\ frame.target = NULL) => frame.ret.raised

\* the absname of the parent of the node at a path that is not empty
ParentAbsname(root, path) == absname(root, SubSeq(path, 1, Len(path) - 1))

NoneStr == <<"None">>

\* Match.groups() of the first of the states rs that end a match of s: the
\* text of each of the ng groups, None for a group that did not match
re_groups(s, rs, ng) ==
    IF rs = <<>> THEN [matched |-> FALSE, groups |-> <<>>]
    ELSE [matched |-> TRUE,
          groups |-> [n \in 1..ng |->
                        IF rs[1].g[n] = <<>> THEN NoneStr
                        ELSE SubSeq(s, rs[1].g[n][1] + 1, rs[1].g[n][2])]]

\* re.match with the pattern compiled as c, for its groups
re_match_groups_compiled(c, s) ==
    re_groups(s,
              re_m_items(c.items, 1, s,
                         [pos |-> 0, g |-> [n \in 1..c.ng |-> <<>>],
                          dotall |-> FALSE]),
              c.ng)

\* re.split(pattern, string) for a pattern, compiled as c, without groups
\* that matches no empty text
RECURSIVE re_split(_, _)
re_split_at(c, string, m) ==
    IF ~m.matched THEN <<string>>
    ELSE <<StrTo(string, m.start)>> \o re_split(c, StrFrom(string, m.end))

re_split(c, string) == re_split_at(c, string, re_search_compiled(c, string, FALSE))

\* str.splitlines() of a text whose lines end with "\n"
splitlines(text) ==
    IF text = <<>> THEN <<>>
    ELSE str_split(IF text[Len(text)] = NL THEN StrTo(text, Len(text) - 1)
                   ELSE text,
                   <<NL>>)

\* class ImportHistory(NamedTuple)
ImportHistory(where, fro, name, as_name, type_checking) ==
    [where |-> where, fro |-> fro, name |-> name, as_name |-> as_name,
     type_checking |-> type_checking]

\* ImportHistory.__eq__(self, other): raised when the call ends with an
\* AttributeError, value what it returns otherwise
ImportHistory_eq(self, other) ==
    IF self.fro = NoneStr THEN [raised |-> TRUE, value |-> FALSE]
    ELSE IF str_startswith(self.fro, <<".">>)
    THEN [raised |-> FALSE, value |-> FALSE]
    ELSE [raised |-> FALSE,
          value |-> self.fro = other.fro /\ self.name = other.name]

\* Imports.history: the pattern of an import statement
history_pattern ==
    <<"(", "?", ":", " ", "*", "f", "r", "o", "m", " ", "+", ")", "?", "(",
      "?", ":", "(", "[", ".", "\\", "w", "]", "+", ")", " ", ")", "?", "(",
      "?", ":", " ", "*", "i", "m", "p", "o", "r", "t", " ", "+", ")", "(",
      "(", "?", ":", "[", ".", "\\", "w", "]", "+", "(", "?", ":", " ", "+",
      "a", "s", " ", "+", ")", "?", "(", "?", ":", "[", ".", "\\", "w", "]",
      "+", ")", "?", " ", "*", ",", "?", " ", "*", ")", "+", ")">>

\* Imports.__text2hist: the pattern of one of the imported names
names_pattern ==
    <<"(", "[", ".", "\\", "w", "]", "+", ")", "(", "?", ":", " ", "+", "a",
      "s", " ", "+", ")", "?", "(", "[", ".", "\\", "w", "]", "+", ")", "?">>

\* the patterns as re compiles them, once (re keeps what it compiled)
history_compiled == re_compile(history_pattern)
names_compiled == re_compile(names_pattern)
comma_compiled == re_compile(<<" ", "*", ",", " ", "*">>)

NoHist == [raised |-> FALSE, hist |-> <<>>]
HistRaised == [raised |-> TRUE, hist |-> <<>>]

\* Imports.__text2hist: the records a and then the records b, when neither
\* raised
text2hist_extend(a, b) ==
    IF a.raised \/ b.raised THEN HistRaised
    ELSE [raised |-> FALSE, hist |-> a.hist \o b.hist]

\* Imports.__text2hist, the loop over the names of a statement: names[k] was
\* matched as m, whose groups() are n and a
RECURSIVE text2hist_names(_, _, _, _, _)
text2hist_name(where, fro, names, k, type_checking, m) ==
    IF ~m.matched THEN HistRaised
    ELSE text2hist_extend(
             [raised |-> FALSE,
              hist |-> <<ImportHistory(where, fro, m.groups[1], m.groups[2],
                                       type_checking)>>],
             text2hist_names(where, fro, names, k + 1, type_checking))

text2hist_names(where, fro, names, k, type_checking) ==
    IF k > Len(names) THEN NoHist
    ELSE text2hist_name(where, fro, names, k, type_checking,
                        re_match_groups_compiled(names_compiled, names[k]))

\* Imports.__text2hist, the body of the loop over the lines: the line was
\* matched as matched, whose groups() are fro and imported
text2hist_line(where, type_checking, matched) ==
    IF ~matched.matched THEN NoHist
    ELSE text2hist_names(where, matched.groups[1],
                         re_split(comma_compiled, matched.groups[2]),
                         1, type_checking)

\* Imports.__text2hist, the loop over lines[k..]
RECURSIVE text2hist_lines(_, _, _, _)
text2hist_lines(where, lines, k, type_checking) ==
    IF k > Len(lines) THEN NoHist
    ELSE text2hist_extend(
             text2hist_line(where, type_checking,
                            re_match_groups_compiled(history_compiled, lines[k])),
             text2hist_lines(where, lines, k + 1, type_checking))

\* Imports.__text2hist(pattern, text, type_checking) of the module `where`
text2hist(where, text, type_checking) ==
    text2hist_lines(where, splitlines(text), 1, type_checking)

\* quote_collapse, the iterations that only add 1 to pos_now: the offset of
\* the next backslash or quote after pos_now, Len(string) when none
quote_collapse_stops(string, pos_now) ==
    {j \in (pos_now + 1)..(Len(string) - 1) :
       string[j + 1] \in {BSL, "'", "\""}}

quote_collapse_first(stops, len) ==
    IF stops = {} THEN len
    ELSE CHOOSE j \in stops : \A k \in stops : j <= k

quote_collapse_skip(string, pos_now) ==
    quote_collapse_first(quote_collapse_stops(string, pos_now), Len(string))

\* quote_collapse, the loop: acc is "".join of the pieces of `quotes` so
\* far, last_quote "" (<<>>), a quote character or three of them
RECURSIVE quote_collapse_loop(_, _, _, _, _)
quote_collapse_quote(string, pos_now, last_pos, last_quote, acc, char) ==
    IF last_quote # <<>>
    THEN IF last_quote = <<char>>
         THEN quote_collapse_loop(string, pos_now + 1, pos_now + 1, <<>>, acc)
         ELSE IF last_quote = <<char, char, char>>
         THEN quote_collapse_loop(string, pos_now + 3, pos_now + 3, <<>>, acc)
         ELSE quote_collapse_loop(string, pos_now + 1, last_pos, last_quote,
                                  acc)
    ELSE IF StrFrom(StrTo(string, pos_now + 3), pos_now + 1) = <<char, char>>
    THEN quote_collapse_loop(string, pos_now + 3, last_pos,
                             <<char, char, char>>,
                             acc \o StrFrom(StrTo(string, pos_now), last_pos))
    ELSE quote_collapse_loop(string, pos_now + 1, last_pos, <<char>>,
                             acc \o StrFrom(StrTo(string, pos_now), last_pos))

quote_collapse_loop(string, pos_now, last_pos, last_quote, acc) ==
    IF pos_now >= Len(string)
    THEN IF last_quote # <<>> THEN [raised |-> TRUE, text |-> <<>>]
         ELSE [raised |-> FALSE,
               text |-> acc \o StrFrom(StrTo(string, pos_now), last_pos)]
    ELSE IF string[pos_now + 1] = BSL
    THEN quote_collapse_loop(string, pos_now + 2, last_pos, last_quote, acc)
    ELSE IF string[pos_now + 1] \in {"'", "\""}
    THEN quote_collapse_quote(string, pos_now, last_pos, last_quote, acc,
                              string[pos_now + 1])
    ELSE quote_collapse_loop(string, quote_collapse_skip(string, pos_now),
                             last_pos, last_quote, acc)

\* quote_collapse(string): raised when it ends with a SyntaxError
quote_collapse(string) == quote_collapse_loop(string, 0, 0, <<>>, <<>>)

\* Imports.history, type_check_pattern after its "(?:\n|^)"
type_check_pattern ==
    <<"i", "f", " ", "+", "T", "Y", "P", "E", "_", "C", "H", "E", "C", "K",
      "I", "N", "G", " ", "*", ":", "(", "?", ":", "\n", "+", " ", " ", " ",
      " ", ".", "*", ")", "+", "(", "?", ":", "\n", "e", "l", "s", "e", " ",
      "*", ":", ")", "?">>

\* the match of type_check_pattern that re.search finds from offset i: "^"
\* stands at offset 0 only, "\n" anywhere
\* type_check_pattern as re compiles it, for "^" and for "\n"
type_check_bol == re_compile(type_check_pattern)
type_check_nl == re_compile(<<NL>> \o type_check_pattern)

type_check_search_else(m, string, i) ==
    IF m.matched THEN m
    ELSE re_search_from(type_check_nl, string, i, FALSE)

type_check_search(string, i) ==
    type_check_search_else(
        IF i = 0 THEN re_match_at(type_check_bol, string, 0, FALSE) ELSE None,
        string, i)

\* re.sub(type_check_pattern, "", text) and
\* "".join(re.findall(type_check_pattern, text)) from offset i, as
\* [functional, type_check]
RECURSIVE type_check_split(_, _)
type_check_found(text, i, m, rest) ==
    [functional |-> StrFrom(StrTo(text, m.start), i) \o rest.functional,
     type_check |-> m.group \o rest.type_check]

type_check_next(text, i, m) ==
    IF ~m.matched
    THEN [functional |-> StrFrom(text, i), type_check |-> <<>>]
    ELSE type_check_found(text, i, m, type_check_split(text, m.end))

type_check_split(text, i) == type_check_next(text, i, type_check_search(text, i))

\* Imports.history after the text was split
history_texts(where, texts) ==
    text2hist_extend(text2hist(where, texts.functional, FALSE),
                     text2hist(where, texts.type_check, TRUE))

\* Imports.history after quote_collapse
history_collapsed(where, collapsed) ==
    IF collapsed.raised THEN HistRaised
    ELSE history_texts(where, type_check_split(collapsed.text, 0))

\* Imports.history of a file `where` with the text `text`: raised when it
\* ends with an exception
history(where, text) == history_collapsed(where, quote_collapse(text))

\* most lines of a text of import statements
MaxImportLines == 2

\* the lines of a module: import statements without and with a source
\* module, relative or not, with several names, and a line that imports
\* nothing
ImportLines ==
    {<<"i", "m", "p", "o", "r", "t", " ", "o", "s">>,
     <<"f", "r", "o", "m", " ", "a", " ", "i", "m", "p", "o", "r", "t", " ",
       "b">>,
     <<"f", "r", "o", "m", " ", ".", "a", " ", "i", "m", "p", "o", "r", "t",
       " ", "b">>,
     <<"i", "m", "p", "o", "r", "t", " ", "o", "s", " ", "a", "s", " ", "o",
       ",", " ", "a">>,
     <<"f", "r", "o", "m", " ", "a", " ", "i", "m", "p", "o", "r", "t", " ",
       "b", ",", " ", "c">>,
     <<"x", " ", "=", " ", "1">>}

RECURSIVE ImportTexts(_)
ImportTexts(n) ==
    IF n = 0 THEN {<<>>}
    ELSE {<<>>} \cup {t \o l \o <<NL>> : t \in ImportTexts(n - 1),
                                         l \in ImportLines}

InitImports == NoTree /\ frame = NoFrame

\* Imports.__text2hist on the text of the module m
Text2hist ==
    /\ frame = NoFrame
    /\ \E text \in ImportTexts(MaxImportLines), type_checking \in BOOLEAN :
          frame' = [fn |-> "text2hist", pc |-> "done", text |-> text,
                    ret |-> text2hist(<<"m">>, text, type_checking)]
    /\ UNCHANGED txVars

\* a == b for two records a and b of the history
Eq ==
    /\ frame.fn = "text2hist"
    /\ ~frame.ret.raised
    /\ \E i \in DOMAIN frame.ret.hist, j \in DOMAIN frame.ret.hist :
          frame' = [fn |-> "eq", pc |-> "done", text |-> frame.text,
                    a |-> frame.ret.hist[i], b |-> frame.ret.hist[j],
                    ret |-> ImportHistory_eq(frame.ret.hist[i],
                                             frame.ret.hist[j])]
    /\ UNCHANGED txVars

\* most statements of a module text
MaxStatements == 3

\* the statements of a module: an import, and string literals, some with
\* the text of an import in them: in quotes, in a docstring that quotes a
\* word, a plain literal, and over the lines of a triple-quoted literal
Statements ==
    {<<"i", "m", "p", "o", "r", "t", " ", "o", "s", "\n">>,
     <<"x", " ", "=", " ", "\"", "i", "m", "p", "o", "r", "t", " ", "r", "e",
       "\"", "\n">>,
     <<"\"", "\"", "\"", "a", " ", "\"", "b", "\"", " ", "c", "\n", "i", "m",
       "p", "o", "r", "t", " ", "r", "e", "\n", "\"", "\"", "\"", "\n">>,
     <<"x", " ", "=", " ", "\"", "d", "\"", "\n">>,
     <<"x", " ", "=", " ", "'", "'", "'", "\n", "i", "m", "p", "o", "r", "t",
       " ", "r", "e", "\n", "'", "'", "'", "\n">>}

RECURSIVE ModuleTexts(_)
ModuleTexts(n) ==
    IF n = 0 THEN {<<>>}
    ELSE {<<>>} \cup {t \o l : t \in ModuleTexts(n - 1), l \in Statements}

\* Imports.history of a file
History ==
    /\ frame = NoFrame
    /\ \E text \in ModuleTexts(MaxStatements) :
          frame' = [fn |-> "history", pc |-> "done", text |-> text,
                    ret |-> history(<<"m">>, text)]
    /\ UNCHANGED txVars

NextImports == Text2hist \/ Eq \/ History

SpecImports == InitImports /\ [][NextImports]_vars

\* C18: a == b of two import records returns a boolean for every record,
\* also for the record of a plain "import x" whose source module is None,
\* and it is TRUE exactly when the records have the same source module and
\* the same name and the source module does not start with ".".
C18_EqualityOfRecords ==
    frame.fn = "eq"
        => /\ ~frame.ret.raised
           /\ frame.ret.value
                <=> /\ frame.a.fro = frame.b.fro
                    /\ frame.a.name = frame.b.name
                    /\ ~str_startswith(frame.a.fro, <<".">>)

\* ---------------------------------------------------- literal patterns
\* pattern_inreg: the characters of the set "[$^.\[\]*+-?!{},|:#><=\\]",
\* in which "+-?" is the range of the characters from "+" to "?"
inreg_set ==
    {"$", "^", ".", "[", "]", "*", "!", "{", "}", ",", "|", ":", "#", ">",
     "<", "=", BSL}
      \cup {"+", ",", "-", ".", "/", "0", "1", "2", "3", "4", "5", "6", "7",
            "8", "9", ":", ";", "<", "=", ">", "?"}

\* pattern_inreg(pattern): re.sub puts a backslash before every character
\* of the set
RECURSIVE pattern_inreg(_)
pattern_inreg(pattern) ==
    IF pattern = <<>> THEN <<>>
    ELSE (IF Head(pattern) \in inreg_set THEN <<BSL, Head(pattern)>>
          ELSE <<Head(pattern)>>)
           \o pattern_inreg(Tail(pattern))

\* PyText.__pattern_trans(pattern, regex=regex) of a str pattern, without
\* whole_word and case sensitive: the pattern that is compiled and what
\* re.compile makes of it
pattern_compiled(pattern, c) ==
    [raised |-> ~c.ok, pattern |-> pattern, compiled |-> c]

pattern_trans(pattern, regex) ==
    pattern_compiled(IF regex THEN pattern ELSE pattern_inreg(pattern),
                     re_compile(IF regex THEN pattern
                                ELSE pattern_inreg(pattern)))

\* Pattern.match(string, pos) for every pos of the string: the spans
\* <<start, end>> of the matches
match_spans(c, string) ==
    {<<pos, re_match_at(c, string, pos, FALSE).end>> :
       pos \in {q \in 0..Len(string) :
                  re_match_at(c, string, q, FALSE).matched}}

\* longest pattern and longest text
MaxPattern == 2
MaxText == 3

\* the characters of patterns and texts: a letter, a digit, brackets and
\* regex operators
PatternChars == {"a", "1", "(", ")", ".", "*"}

RECURSIVE PatternStrings(_)
PatternStrings(n) ==
    IF n = 0 THEN {<<>>}
    ELSE {<<>>} \cup {Append(t, c) : t \in PatternStrings(n - 1),
                                     c \in PatternChars}

InitPattern == NoTree /\ frame = NoFrame

\* __pattern_trans(pattern, regex=False)
PatternTrans ==
    /\ frame = NoFrame
    /\ \E pattern \in PatternStrings(MaxPattern) \ {<<>>} :
          frame' = [fn |-> "pattern_trans", pc |-> "done", arg |-> pattern,
                    ret |-> pattern_trans(pattern, FALSE)]
    /\ UNCHANGED txVars

\* the compiled pattern is matched at every position of a text
PatternMatch ==
    /\ frame.fn = "pattern_trans"
    /\ ~frame.ret.raised
    /\ \E string \in PatternStrings(MaxText) :
          frame' = [fn |-> "match", pc |-> "done", arg |-> frame.arg,
                    string |-> string,
                    ret |-> match_spans(frame.ret.compiled, string)]
    /\ UNCHANGED txVars

NextPattern == PatternTrans \/ PatternMatch

SpecPattern == InitPattern /\ [][NextPattern]_vars

\* the spans of a text at which the pattern stands as a literal substring
LiteralSpans(pattern, string) ==
    {<<pos, pos + Len(pattern)>> :
       pos \in {q \in 0..(Len(string) - Len(pattern)) :
                  SubSeq(string, q + 1, q + Len(pattern)) = pattern}}

\* C19: with regex=False every pattern of letters, digits, brackets and
\* regex operators compiles, and the compiled pattern matches a text at
\* exactly the spans where the pattern stands in it as a literal substring.
C19_LiteralPattern ==
    /\ frame.fn = "pattern_trans" => ~frame.ret.raised
    /\ frame.fn = "match"
          => frame.ret = LiteralSpans(frame.arg, frame.string)

\* the docstring a class states itself, in its header
OwnDoc(class) ==
    doc_searched(re_search(<<"\"", "\"", "\"", ".", "*", "?", "\"", "\"", "\"">>,
                           header(class).text, TRUE))

\* the methods of a class that are its __init__
InitMethods(class) ==
    {k \in DOMAIN class.children :
       class.children[k].name
         = <<"_", "_", "i", "n", "i", "t", "_", "_", "(", ")">>}

\* the docstring of the __init__ method of a class, "" when it has none
InitDoc(class) ==
    IF InitMethods(class) = {} THEN <<>>
    ELSE PyFunc_doc(class.children[CHOOSE k \in InitMethods(class) : TRUE])

\* C20: the doc of a class is the class's own docstring when it has one,
\* the docstring of its __init__ method when the class has none, and empty
\* when neither exists.
C20_DocFallsBackToInit ==
    frame.fn = "doc"
        => frame.ret =
              IF OwnDoc(NodeAt(frame.root, frame.path)) # <<>>
              THEN OwnDoc(NodeAt(frame.root, frame.path))
              ELSE InitDoc(NodeAt(frame.root, frame.path))

\* ------------------------------------------------------------ segmentation
\* what a line of a file text starts: "def", "class", "dec" (a decorator),
\* "doc" (a docstring), "content" (another statement), or "inner" for a
\* line that starts nothing (blank, indented or a closing bracket)
LineKind(line) ==
    CASE line = <<>> -> "inner"
      [] IsSpace(line[1]) \/ line[1] \in {")", "]", "}"} -> "inner"
      [] str_startswith(line, <<"d", "e", "f", " ">>) -> "def"
      [] str_startswith(line, <<"c", "l", "a", "s", "s", " ">>) -> "class"
      [] line[1] = "@" -> "dec"
      [] str_startswith(line, <<"\"", "\"", "\"">>) -> "doc"
      [] OTHER -> "content"

\* the chunks of the lines k.. of a file text, by what they are: a
\* decorator run belongs to the def or class after it, the statements
\* between two of them are one content; prev is the chunk before line k
RECURSIVE ChunkKinds(_, _, _)
ChunkKinds(lines, k, prev) ==
    IF k > Len(lines) THEN <<>>
    ELSE IF LineKind(lines[k]) \in {"inner", "dec"}
              \/ (LineKind(lines[k]) = "doc" /\ prev = "none")
              \/ (LineKind(lines[k]) = "content" /\ prev = "content")
    THEN ChunkKinds(lines, k + 1,
                    IF LineKind(lines[k]) = "doc" THEN "doc" ELSE prev)
    ELSE <<IF LineKind(lines[k]) = "doc" THEN "content"
           ELSE LineKind(lines[k])>>
           \o ChunkKinds(lines, k + 1,
                         IF LineKind(lines[k]) = "doc" THEN "content"
                         ELSE LineKind(lines[k]))

\* what the children of a file are
ChildKinds(root) ==
    [k \in DOMAIN root.children |->
       CASE root.children[k].cls = "PyFunc" -> "def"
         [] root.children[k].cls = "PyClass" -> "class"
         [] OTHER -> "content"]

\* C21: the children of a file are its chunks in their order: a function
\* for each chunk that starts with def (after its decorators), a class for
\* each that starts with class, a content for the statements between them,
\* also for a def or class on the first line of the file.
C21_ChunksClassified ==
    frame.fn = "PyFile"
        => ChildKinds(frame.root) = ChunkKinds(Lines(frame.source), 1, "none")

\* C22: Imports.history holds no record of an import that stands only in a
\* string literal: in the module texts, "re" is imported only inside
\* literals (quoted, or triple-quoted up to the closing triple quote), so
\* no record has the name "re".
C22_NoImportFromLiteral ==
    frame.fn = "history"
        => \A k \in DOMAIN frame.ret.hist : frame.ret.hist[k].name # <<"r", "e">>

\* ----------------------------------------------------------- chained edits
\* the editors of the file f that no later editor is based on
Unsuperseded(eds, f) ==
    {i \in DOMAIN eds : eds[i].pyfile = f /\ ~eds[i].is_based_on}

\* C23: a replace marks the editor it is based on as superseded iff it
\* made a substitution (an editor that made none is not kept and marks
\* nothing), no other mark changes, and of the editors of a file, which
\* made a substitution each, exactly the last one is not superseded.
C23_SupersededIffSubstituted ==
    [][
       /\ \A i \in DOMAIN editors :
             editors'[i].is_based_on
               <=> \/ editors[i].is_based_on
                   \/ /\ Len(editors') > Len(editors)
                      /\ editors'[Len(editors')].based_on = i
                      /\ editors'[Len(editors')].count > 0
       /\ \A j \in DOMAIN editors' : editors'[j].count > 0
       /\ \A f \in files :
             (\E j \in DOMAIN editors' : editors'[j].pyfile = f)
                => Unsuperseded(editors', f)
                     = {CHOOSE j \in DOMAIN editors' :
                          /\ editors'[j].pyfile = f
                          /\ \A k \in DOMAIN editors' :
                                editors'[k].pyfile = f => k <= j}
      ]_vars

\* C23 witness: a second edit of a file was staged on the first: the first
\* is superseded, the second is not
C23_Witness ==
    /\ Len(editors) = 2
    /\ editors[2].based_on = 1
    /\ editors[2].count > 0
    /\ editors[1].is_based_on
    /\ ~editors[2].is_based_on

\* ------------------------------------------------------- leftmost match
\* smart_match at the start offset k of the searched string
MatchAtOffset(k) == smart_match(frame.pattern, StrFrom(frame.string, k))

\* C24: smart_search returns the leftmost match, its span in offsets of the
\* original string and its group the text of that span, smart_match failing
\* at every smaller start offset; it returns None only when smart_match
\* fails at every start offset from 0 to the length of the string.
C24_SearchIsLeftmost ==
    (frame.pc = "done" /\ frame.fn = "smart_search")
    => /\ frame.ret.matched
            => /\ frame.ret.group
                    = SubSeq(frame.string, frame.ret.start + 1, frame.ret.end)
               /\ MatchAtOffset(frame.ret.start).matched
               /\ frame.ret.end
                    = frame.ret.start + MatchAtOffset(frame.ret.start).end
               /\ \A k \in 0..(frame.ret.start - 1) : ~MatchAtOffset(k).matched
       /\ ~frame.ret.matched
            => \A k \in 0..Len(frame.string) : ~MatchAtOffset(k).matched

\* ------------------------------------------------- spans across lines
\* the offset after the bracket that closes the one at offset 1 of s, the
\* newlines counting as any other character; 0 if nothing closes it
SpanEnd(s) ==
    LET E == {n \in 3..Len(s) :
                /\ Depth(SubSeq(s, 2, n), n - 1, "(", ")") = 0
                /\ \A k \in 1..(n - 2) : Depth(SubSeq(s, 2, n), k, "(", ")") > 0}
    IN  IF E = {} THEN 0 ELSE CHOOSE n \in E : \A m \in E : n <= m

\* the span of s that ends at offset n holds a newline
SpanHasNewline(s, n) == \E k \in 2..n : s[k] = NL

\* smart_match with the pattern text "a{}b" and the ignore set "()" was given
\* a string that starts with "a("
SpanCase ==
    /\ frame.pc = "done"
    /\ frame.fn = "smart_match"
    /\ frame.pattern.pattern = <<"a", "{", "}", "b">>
    /\ frame.pattern.ignore = <<"(", ")">>
    /\ Len(frame.string) >= 2
    /\ frame.string[1] = "a"
    /\ frame.string[2] = "("

\* C25: without DOTALL a span that would hold a newline makes
\* find_right_bracket return -1 and the match fail; with DOTALL the span may
\* cross lines and is consumed, the match going on after it.
C25_SpanStopsAtNewline ==
    (SpanCase /\ SpanEnd(frame.string) > 0
       /\ SpanHasNewline(frame.string, SpanEnd(frame.string)))
    => /\ find_right_bracket(frame.string, 1, FALSE) = -1
       /\ find_right_bracket(frame.string, 1, TRUE) = SpanEnd(frame.string)
       /\ ~frame.pattern.dotall => frame.ret = None
       /\ frame.pattern.dotall
            => frame.ret
                 = IF /\ Len(frame.string) > SpanEnd(frame.string)
                      /\ frame.string[SpanEnd(frame.string) + 1] = "b"
                   THEN Match(0, SpanEnd(frame.string) + 1,
                              SubSeq(frame.string, 1,
                                     SpanEnd(frame.string) + 1))
                   ELSE None

\* C25 witness: with DOTALL, smart_match has consumed a span that holds a
\* newline and matched the "b" after it
C25_Witness ==
    /\ SpanCase
    /\ frame.pattern.dotall
    /\ frame.string = <<"a", "(", NL, ")", "b">>
    /\ frame.ret = Match(0, 5, frame.string)


\* ------------------------------------------------------ lines and columns
\* the line (from 1) and the column (from 0) of the offset i of s
LineOf(s, i) == 1 + str_count(StrTo(s, i), NL)
ColumnOf(s, i) == i - 1 - str_rfind(StrTo(s, i), NL)

\* the matches real_findall(pattern, string) reports without linemode, their
\* spans in offsets of the whole string
AbsoluteFinds(pattern, string) ==
    real_findall_run([LoopFrame("real_findall", pattern, string, 0, FALSE,
                                <<>>) EXCEPT !.pc = "loop"])

\* every <<nline, match>> of finds has the line and the column of the match
\* at the same place of abs
LinesAndColumns(finds, abs, s) ==
    /\ Len(finds) = Len(abs)
    /\ \A k \in DOMAIN finds :
         /\ finds[k][1] = LineOf(s, abs[k].start)
         /\ finds[k][2].start = ColumnOf(s, abs[k].start)
         /\ finds[k][2].group = abs[k].group

\* C26: real_findall with linemode=True reports every match as (nline,
\* match), nline being 1 plus the number of newlines of the string before
\* the start of the match and match.start() the column of the match within
\* that line, matches over several lines and zero-width matches included.
C26_LineAndColumn ==
    (/\ frame.fn = "real_findall"
     /\ frame.linemode
     /\ frame.pc = "done"
     /\ frame.ret # Raised)
    => LinesAndColumns(frame.ret,
                       AbsoluteFinds(frame.pattern, frame.string0),
                       frame.string0)

\* ------------------------------------------------------ advancing matches
\* what the next test of the loop finds, and where in the original string
Found(fr) == smart_search(fr.pattern, fr.string)
AbsOffset(fr, i) == Len(fr.string0) - Len(fr.string) + i

\* the match at <<start1, end1>> comes after the one at <<start0, end0>>
Advances(start0, end0, start1) == start1 >= end0 /\ start1 > start0

\* C27: the matches real_findall and smart_findall report and the
\* occurrences smart_sub replaces do not overlap and advance strictly in the
\* original string: a match that follows another starts at or after the end
\* of the other and after its start, so that a zero-width match at a
\* position is reported or replaced at most once.
C27_MatchesAdvance ==
    [][
       (/\ frame.fn \in {"real_findall", "smart_findall", "smart_sub"}
        /\ frame.pc = "loop"
        /\ frame'.pc = "loop"
        /\ Found(frame).matched
        /\ Found(frame').matched)
       => Advances(AbsOffset(frame, Found(frame).start),
                   AbsOffset(frame, Found(frame).end),
                   AbsOffset(frame', Found(frame').start))
      ]_vars


\* ---------------------------------------------------------- raising calls
\* the call that was just made raised
RaisedCall == last'.op \in {"confirm", "rollback"} /\ last'.raised

\* C28: a confirm() that raises because the transaction is confirmed and a
\* rollback() that raises because it is not leave everything as it was: no
\* file is read or written, the confirmed flag keeps its value and the list
\* of edits is untouched.
C28_RaisingCallsChangeNothing ==
    [][
       RaisedCall
       => /\ last'.op = "confirm" => confirmed
          /\ last'.op = "rollback" => ~confirmed
          /\ disk' = disk
          /\ last'.writes = <<>>
          /\ last'.pre = <<>>
          /\ last'.info = NoInfo
          /\ confirmed' = confirmed
          /\ editors' = editors
          /\ pyText' = pyText
      ]_vars

\* C28 witness: a confirm() of a confirmed transaction has raised after
\* another program changed a file, so that a file an edit writes to does not
\* hold the text of the edit
C28_Witness ==
    /\ last.op = "confirm" /\ last.raised
    /\ confirmed
    /\ nExternal > 0
    /\ \E i \in Active(editors) :
         /\ exists(disk, editors[i].path)
         /\ disk[editors[i].path] # editors[i].new_text \o <<NL>>


\* ---------------------------------------------------- edits of a copy
\* the editor a call of replace() has just added
Staged == editors'[Len(editors')]

\* no editor of the file f that confirm() or rollback() writes was staged
\* with overwrite=True
OnlyCopies(f) ==
    \A i \in Active(editors) : editors[i].pyfile = f => ~editors[i].overwrite

\* C29: an edit staged with overwrite=False never modifies a file that
\* existed when it was staged: its path is a copy path that did not exist
\* when replace() chose it, confirm() and rollback() write for it only to
\* that path, and the file of the tree keeps its content on disk through
\* every confirm() and rollback().
C29_CopyLeavesOriginal ==
    [][
       /\ (Len(editors') > Len(editors) /\ ~Staged.overwrite)
            => /\ ~exists(disk, Staged.path)
               /\ Staged.path[1] = Staged.pyfile
               /\ Staged.path[2] > 0
       /\ last'.op \in {"confirm", "rollback"}
            => /\ \A k \in DOMAIN last'.writes :
                    ~editors[last'.writes[k].editor].overwrite
                      => /\ last'.writes[k].path
                              = editors[last'.writes[k].editor].path
                         /\ last'.writes[k].path[2] > 0
               /\ \A q \in DOMAIN disk :
                    disk'[q] # disk[q]
                      => \E k \in DOMAIN last'.writes : last'.writes[k].path = q
               /\ \A f \in files :
                    OnlyCopies(f) => disk'[<<f, 0>>] = disk[<<f, 0>>]
      ]_vars

\* C29 witness: a rollback() has written the text of the file to the copy an
\* edit staged with overwrite=False was confirmed to, and the file of the
\* tree holds on disk what it held before the call
C29_Witness ==
    /\ last.op = "rollback" /\ ~last.raised
    /\ \E k \in DOMAIN last.writes :
         /\ ~editors[last.writes[k].editor].overwrite
         /\ last.writes[k].path[2] > 0
         /\ last.pre[last.writes[k].path] # Absent
         /\ last.pre[last.writes[k].path] # disk[last.writes[k].path]
         /\ disk[last.writes[k].path]
              = pyText[last.writes[k].path[1]] \o <<NL>>
         /\ disk[<<last.writes[k].path[1], 0>>]
              = last.pre[<<last.writes[k].path[1], 0>>]


\* ------------------------------------------------------ nothing is lost
\* the number of places of the sequence seq that hold x
Occurs(seq, x) == Cardinality({k \in DOMAIN seq : seq[k] = x})

\* the lines of the texts of the children k.. of a node
RECURSIVE ChildLines(_, _)
ChildLines(node, k) ==
    IF k > Len(node.children) THEN <<>>
    ELSE Lines(node.children[k].text) \o ChildLines(node, k + 1)

\* every line of lines that is not blank is as often in parts as in lines
SameLines(lines, parts) ==
    \A k \in DOMAIN lines :
       strip(lines[k]) # <<>>
         => Occurs(parts, lines[k]) = Occurs(lines, lines[k])

\* the lines, without the surrounding whitespace, that hold the text sub
MatchingLines(lines, sub) ==
    SelectSeq([k \in DOMAIN lines |-> strip(lines[k])],
              LAMBDA l : str_find(l, sub, 0) >= 0)

\* the groups of the findings, without the surrounding whitespace
FoundLines(ret) == [k \in DOMAIN ret |-> strip(ret[k][3])]

\* the sequences a and b hold the same elements, each as often
SameBag(a, b) ==
    /\ Len(a) = Len(b)
    /\ \A k \in DOMAIN a : Occurs(a, a[k]) = Occurs(b, a[k])

\* C30: segmentation loses and duplicates nothing: for a file that has
\* children, every line of the file's text that is not blank is a line of
\* the text of exactly one of the file's header and children, and findall on
\* the file reports each line that matches once and misses none.
C30_NothingLost ==
    (frame.fn = "findall" /\ frame.path = <<>>
       /\ frame.root.children # <<>>)
    => /\ SameLines(Lines(frame.root.text),
                    Lines(header(frame.root).text)
                      \o ChildLines(frame.root, 1))
       /\ SameBag(FoundLines(frame.ret),
                  MatchingLines(Lines(frame.root.text), frame.pattern))


====
